---- MODULE Spec2Model ----
(***************************************************************************)
(* Model of the BPDM upload tool's CSV codec (src/server).                 *)
(*                                                                         *)
(*   decode : csv_tools.read_header_csv_with_reader, driven with the       *)
(*            parameter sets of its callers (convert_csv.convert,          *)
(*            sharing_state_csv.get_external_ids) and of the generic API   *)
(*   nested : convert_csv.CSVRecord.to_dict                                *)
(*   encode : convert_json.convert                                         *)
(*                                                                         *)
(* Python values are modelled as tagged records [t |-> type, v |-> text];  *)
(* strings are TLA+ strings and are processed character by character, so   *)
(* whitespace handling, parsing and formatting are computed, not assumed.  *)
(* Column indexes are 1-based here (0-based in the source).                *)
(***************************************************************************)
EXTENDS Integers, Sequences, FiniteSets, TLC

(***************************************************************************)
(* Bounds of the model                                                     *)
(***************************************************************************)
\* number of data rows the reader delivers before it is exhausted
MaxRows == 3

(***************************************************************************)
(* String helpers (Python str methods)                                     *)
(***************************************************************************)
Char(s, i) == SubSeq(s, i, i)

\* characters str.split() / str.strip() treat as whitespace
Whitespace == {" ", "\t"}

Digits == {"0", "1", "2", "3", "4", "5", "6", "7", "8", "9"}

\* mutant: the text is compared as it is written
lower_unchanged(s) == s

RECURSIVE lower(_)
lower(s) ==
  IF s = "" THEN ""
  ELSE (LET c == Char(s, 1) IN
        CASE c = "A" -> "a" [] c = "B" -> "b" [] c = "C" -> "c" [] c = "D" -> "d"
          [] c = "E" -> "e" [] c = "F" -> "f" [] c = "G" -> "g" [] c = "H" -> "h"
          [] c = "I" -> "i" [] c = "J" -> "j" [] c = "K" -> "k" [] c = "L" -> "l"
          [] c = "M" -> "m" [] c = "N" -> "n" [] c = "O" -> "o" [] c = "P" -> "p"
          [] c = "Q" -> "q" [] c = "R" -> "r" [] c = "S" -> "s" [] c = "T" -> "t"
          [] c = "U" -> "u" [] c = "V" -> "v" [] c = "W" -> "w" [] c = "X" -> "x"
          [] c = "Y" -> "y" [] c = "Z" -> "z" [] OTHER -> c)
       \o lower(SubSeq(s, 2, Len(s)))

startswith(s, p) == Len(s) >= Len(p) /\ SubSeq(s, 1, Len(p)) = p

endswith(s, p) == Len(s) >= Len(p) /\ SubSeq(s, Len(s) - Len(p) + 1, Len(s)) = p

\* a < b for strings of the characters of keys and column names: the
\* order of the code points, a proper prefix first
str_lt(a, b) ==
  LET code_points == ".0123456789ABCDEFGHIJKLMNOPQRSTUVWXYZ_abcdefghijklmnopqrstuvwxyz" IN
  \E k \in 1..Len(b) :
    /\ Len(a) >= k - 1
    /\ SubSeq(a, 1, k - 1) = SubSeq(b, 1, k - 1)
    /\ \/ Len(a) = k - 1
       \/ \E i, j \in 1..Len(code_points) :
            /\ i < j
            /\ Char(code_points, i) = Char(a, k)
            /\ Char(code_points, j) = Char(b, k)

\* str.replace( a, b ) for single characters a, b
RECURSIVE replace(_, _, _)
replace(s, a, b) ==
  IF s = "" THEN ""
  ELSE (IF Char(s, 1) = a THEN b ELSE Char(s, 1)) \o replace(SubSeq(s, 2, Len(s)), a, b)

RECURSIVE lstrip(_)
lstrip(s) ==
  IF s # "" /\ Char(s, 1) \in Whitespace THEN lstrip(SubSeq(s, 2, Len(s))) ELSE s

RECURSIVE rstrip(_)
rstrip(s) ==
  IF s # "" /\ Char(s, Len(s)) \in Whitespace THEN rstrip(SubSeq(s, 1, Len(s) - 1)) ELSE s

\* str.strip()
strip(s) == rstrip(lstrip(s))

\* length of the leading run of non-whitespace characters
RECURSIVE WordLen(_)
WordLen(s) ==
  IF s = "" \/ Char(s, 1) \in Whitespace THEN 0 ELSE 1 + WordLen(SubSeq(s, 2, Len(s)))

\* str.split() without argument: the whitespace-separated words
RECURSIVE split(_)
split(s) ==
  LET t == lstrip(s) IN
  IF t = "" THEN << >>
  ELSE << SubSeq(t, 1, WordLen(t)) >> \o split(SubSeq(t, WordLen(t) + 1, Len(t)))

\* sep.join( words )
RECURSIVE join(_, _)
join(sep, words) ==
  IF words = << >> THEN ""
  ELSE IF Len(words) = 1 THEN words[1]
  ELSE words[1] \o sep \o join(sep, Tail(words))

\* string_tools.collapse
collapse(s) == join(" ", split(s))

IsDigits(s) == s # "" /\ \A i \in 1..Len(s) : Char(s, i) \in Digits

\* position of the first occurrence of character c in s, 0 if absent
RECURSIVE find(_, _)
find(s, c) ==
  IF s = "" THEN 0
  ELSE IF Char(s, 1) = c THEN 1
  ELSE LET r == find(SubSeq(s, 2, Len(s)), c) IN IF r = 0 THEN 0 ELSE r + 1

\* a decimal numeral without its leading zeros ("007" -> "7", "000" -> "0")
RECURSIVE StripLeadingZeros(_)
StripLeadingZeros(s) ==
  IF Len(s) > 1 /\ Char(s, 1) = "0" THEN StripLeadingZeros(SubSeq(s, 2, Len(s))) ELSE s

\* a fraction without its trailing zeros ("140" -> "14", "00" -> "0")
RECURSIVE StripTrailingZeros(_)
StripTrailingZeros(s) ==
  IF Len(s) > 1 /\ Char(s, Len(s)) = "0" THEN StripTrailingZeros(SubSeq(s, 1, Len(s) - 1)) ELSE s

(***************************************************************************)
(* Schema model (csv_tools.py)                                             *)
(***************************************************************************)
\* class Empty.  A column's empty policy is [e |-> code, d |-> default]:
\* the three policy constants carry no default, and a literal default value
\* (any other value of Column.empty) is EmptyDefault( literal ).
Empty ==
  [NotOK  |-> [e |-> 0, d |-> ""],
   ToNone |-> [e |-> 1, d |-> ""],
   OK     |-> [e |-> 2, d |-> ""]]

EmptyDefault(literal) == [e |-> 3, d |-> literal]

\* class SpaceHandling
SpaceHandling == [Keep |-> 0, Strip |-> 1, Collapse |-> 2]

\* re_invalid_object_attribute_chars.sub( "_", name ): every maximal run of
\* characters outside [a-zA-Z0-9_] becomes one "_"
RECURSIVE sub_invalid(_, _)
sub_invalid(name, in_run) ==
  IF name = "" THEN ""
  ELSE IF Char(name, 1) \in
          {"a", "b", "c", "d", "e", "f", "g", "h", "i", "j", "k", "l", "m",
           "n", "o", "p", "q", "r", "s", "t", "u", "v", "w", "x", "y", "z",
           "A", "B", "C", "D", "E", "F", "G", "H", "I", "J", "K", "L", "M",
           "N", "O", "P", "Q", "R", "S", "T", "U", "V", "W", "X", "Y", "Z", "_"} \cup Digits
       THEN Char(name, 1) \o sub_invalid(SubSeq(name, 2, Len(name)), FALSE)
       ELSE (IF in_run THEN "" ELSE "_") \o sub_invalid(SubSeq(name, 2, Len(name)), TRUE)

\* make_attribute_name (defined for non-empty names, as in the source)
make_attribute_name(name) ==
  LET result == sub_invalid(name, FALSE) IN
  IF Char(result, 1) \in Digits THEN "_" \o result ELSE result

\* Column.__init__ without destination_name
Column(column_name, column_type, empty, optional) ==
  [column_name               |-> column_name,
   column_type               |-> column_type,
   empty                     |-> empty,
   optional                  |-> optional,
   destination_name          |-> make_attribute_name(column_name),
   destination_name_provided |-> FALSE]

\* Column.column_name_for_array_object
column_name_for_array_object(col, prefixlen) ==
  IF col.destination_name_provided
  THEN col.destination_name
  ELSE make_attribute_name(SubSeq(col.column_name, prefixlen + 1, Len(col.column_name)))

\* ArrayGroup.__init__; prefix None is has_prefix = FALSE
ArrayGroup(name, has_prefix, prefix, make_type) ==
  [name |-> name, has_prefix |-> has_prefix, prefix |-> prefix, make_type |-> make_type]

(***************************************************************************)
(* Domain schema (file_format.py)                                          *)
(***************************************************************************)
\* member names of the enumerations, in declaration order
StatesType == << "INACTIVE", "ACTIVE" >>

ClassificationsType == << "NACE", "NAF", "NAICS", "SIC" >>

Roles == << "SUPPLIER", "CUSTOMER", "ONE_TIME_SUPPLIER", "ONE_TIME_CUSTOMER" >>

AddressType ==
  << "LegalAndSiteMainAddress", "LegalAddress", "SiteMainAddress", "AdditionalAddress" >>

DeliveryServiceType == << "PO_BOX", "PRIVATE_BAG", "BOITE_POSTALE" >>

EnumTypes ==
  [StatesType          |-> StatesType,
   ClassificationsType |-> ClassificationsType,
   Roles               |-> Roles,
   AddressType         |-> AddressType,
   DeliveryServiceType |-> DeliveryServiceType]

country_codes ==
  {"AC", "AD", "AE", "AF", "AG", "AI", "AL", "AM", "AN", "AO", "AQ", "AR",
   "AS", "AT", "AU", "AW", "AX", "AZ", "BA", "BB", "BD", "BE", "BF", "BG",
   "BH", "BI", "BJ", "BL", "BM", "BN", "BO", "BQ", "BR", "BS", "BT", "BU",
   "BV", "BW", "BY", "BZ", "CA", "CC", "CD", "CF", "CG", "CH", "CI", "CK",
   "CL", "CM", "CN", "CO", "CP", "CR", "CS", "CU", "CV", "CW", "CX", "CY",
   "CZ", "DE", "DG", "DJ", "DK", "DM", "DO", "DZ", "EA", "EC", "EE", "EG",
   "EH", "ER", "ES", "ET", "EU", "EZ", "FI", "FJ", "FK", "FM", "FO", "FR",
   "FX", "GA", "GB", "GD", "GE", "GF", "GG", "GH", "GI", "GL", "GM", "GN",
   "GP", "GQ", "GR", "GS", "GT", "GU", "GW", "GY", "HK", "HM", "HN", "HR",
   "HT", "HU", "IC", "ID", "IE", "IL", "IM", "IN", "IO", "IQ", "IR", "IS",
   "IT", "JE", "JM", "JO", "JP", "KE", "KG", "KH", "KI", "KM", "KN", "KP",
   "KR", "KW", "KY", "KZ", "LA", "LB", "LC", "LI", "LK", "LR", "LS", "LT",
   "LU", "LV", "LY", "MA", "MC", "MD", "ME", "MF", "MG", "MH", "MK", "ML",
   "MM", "MN", "MO", "MP", "MQ", "MR", "MS", "MT", "MU", "MV", "MW", "MX",
   "MY", "MZ", "NA", "NC", "NE", "NF", "NG", "NI", "NL", "NO", "NP", "NR",
   "NT", "NU", "NZ", "OM", "PA", "PE", "PF", "PG", "PH", "PK", "PL", "PM",
   "PN", "PR", "PS", "PT", "PW", "PY", "QA", "RE", "RO", "RS", "RU", "RW",
   "SA", "SB", "SC", "SD", "SE", "SF", "SG", "SH", "SI", "SJ", "SK", "SL",
   "SM", "SN", "SO", "SR", "SS", "ST", "SU", "SV", "SX", "SY", "SZ", "TA",
   "TC", "TD", "TF", "TG", "TH", "TJ", "TK", "TL", "TM", "TN", "TO", "TP",
   "TR", "TT", "TV", "TW", "TZ", "UA", "UG", "UK", "UM", "UNDEFINED", "US", "UY",
   "UZ", "VA", "VC", "VE", "VG", "VI", "VN", "VU", "WF", "WS", "XI", "XK",
   "XU", "YE", "YT", "YU", "ZA", "ZM", "ZR", "ZW"}

\* a list of Column( column_name, column_type, empty, optional ) calls
columns(arguments) ==
  [i \in DOMAIN arguments |->
     Column(arguments[i][1], arguments[i][2], arguments[i][3], arguments[i][4])]

get_csv_header ==
  columns(<<
    << "externalId", "str", Empty.NotOK, FALSE >>,
    << "name1", "str", Empty.NotOK, FALSE >>,
    << "name2", "str", Empty.ToNone, TRUE >>,
    << "name3", "str", Empty.ToNone, TRUE >>,
    << "name4", "str", Empty.ToNone, TRUE >>,
    << "name5", "str", Empty.ToNone, TRUE >>,
    << "name6", "str", Empty.ToNone, TRUE >>,
    << "name7", "str", Empty.ToNone, TRUE >>,
    << "name8", "str", Empty.ToNone, TRUE >>,
    << "name9", "str", Empty.ToNone, TRUE >>,
    << "identifiers.type", "str", Empty.ToNone, TRUE >>,
    << "identifiers.value", "str", Empty.ToNone, TRUE >>,
    << "identifiers.issuingBody", "str", Empty.ToNone, TRUE >>,
    << "states.validFrom", "datetime", Empty.ToNone, TRUE >>,
    << "states.validTo", "datetime", Empty.ToNone, TRUE >>,
    << "states.type", "StatesType", Empty.ToNone, TRUE >>,
    << "roles", "Roles", Empty.ToNone, TRUE >>,
    << "legalEntity.legalEntityBpn", "str", Empty.ToNone, TRUE >>,
    << "legalEntity.legalName", "str", Empty.ToNone, TRUE >>,
    << "legalEntity.shortName", "str", Empty.ToNone, TRUE >>,
    << "legalEntity.legalForm", "str", Empty.ToNone, TRUE >>,
    << "legalEntity.classifications.type", "ClassificationsType", Empty.ToNone, TRUE >>,
    << "legalEntity.classifications.code", "str", Empty.ToNone, TRUE >>,
    << "legalEntity.classifications.value", "str", Empty.ToNone, TRUE >>,
    << "site.siteBpn", "str", Empty.ToNone, TRUE >>,
    << "site.name", "str", Empty.ToNone, TRUE >>,
    << "address.addressBpn", "str", Empty.ToNone, TRUE >>,
    << "address.name", "str", Empty.ToNone, TRUE >>,
    << "address.addressType", "AddressType", Empty.ToNone, TRUE >>,
    << "address.physical.geographicCoordinates.longitude", "float", Empty.ToNone, TRUE >>,
    << "address.physical.geographicCoordinates.latitude", "float", Empty.ToNone, TRUE >>,
    << "address.physical.geographicCoordinates.altitude", "float", Empty.ToNone, TRUE >>,
    << "address.physical.country", "country_codes", Empty.ToNone, TRUE >>,
    << "address.physical.administrativeAreaLevel1", "str", Empty.ToNone, TRUE >>,
    << "address.physical.administrativeAreaLevel2", "str", Empty.ToNone, TRUE >>,
    << "address.physical.administrativeAreaLevel3", "str", Empty.ToNone, TRUE >>,
    << "address.physical.postalCode", "str", Empty.ToNone, TRUE >>,
    << "address.physical.city", "str", Empty.ToNone, TRUE >>,
    << "address.physical.district", "str", Empty.ToNone, TRUE >>,
    << "address.physical.street.namePrefix", "str", Empty.ToNone, TRUE >>,
    << "address.physical.street.additionalNamePrefix", "str", Empty.ToNone, TRUE >>,
    << "address.physical.street.name", "str", Empty.ToNone, TRUE >>,
    << "address.physical.street.nameSuffix", "str", Empty.ToNone, TRUE >>,
    << "address.physical.street.additionalNameSuffix", "str", Empty.ToNone, TRUE >>,
    << "address.physical.street.houseNumber", "str", Empty.ToNone, TRUE >>,
    << "address.physical.street.houseNumberSupplement", "str", Empty.ToNone, TRUE >>,
    << "address.physical.street.milestone", "str", Empty.ToNone, TRUE >>,
    << "address.physical.street.direction", "str", Empty.ToNone, TRUE >>,
    << "address.physical.companyPostalCode", "str", Empty.ToNone, TRUE >>,
    << "address.physical.industrialZone", "str", Empty.ToNone, TRUE >>,
    << "address.physical.building", "str", Empty.ToNone, TRUE >>,
    << "address.physical.floor", "str", Empty.ToNone, TRUE >>,
    << "address.physical.door", "str", Empty.ToNone, TRUE >>,
    << "address.alternative.geographicCoordinates.longitude", "float", Empty.ToNone, TRUE >>,
    << "address.alternative.geographicCoordinates.latitude", "float", Empty.ToNone, TRUE >>,
    << "address.alternative.geographicCoordinates.altitude", "float", Empty.ToNone, TRUE >>,
    << "address.alternative.country", "country_codes", Empty.ToNone, TRUE >>,
    << "address.alternative.administrativeAreaLevel1", "str", Empty.ToNone, TRUE >>,
    << "address.alternative.postalCode", "str", Empty.ToNone, TRUE >>,
    << "address.alternative.city", "str", Empty.ToNone, TRUE >>,
    << "address.alternative.deliveryServiceType", "DeliveryServiceType", Empty.ToNone, TRUE >>,
    << "address.alternative.deliveryServiceQualifier", "str", Empty.ToNone, TRUE >>,
    << "address.alternative.deliveryServiceNumber", "str", Empty.ToNone, TRUE >>,
    << "createdAt", "datetime", Empty.ToNone, TRUE >>,
    << "updatedAt", "datetime", Empty.ToNone, TRUE >>,
    << "isOwnCompanyData", "bool", Empty.NotOK, FALSE >>
  >>)

CSVRecord_scalar_attributes ==
  {"externalId",
   "name1",
   "name2",
   "name3",
   "name4",
   "name5",
   "name6",
   "name7",
   "name8",
   "name9",
   "isOwnCompanyData",
   "legalEntity_legalEntityBpn",
   "legalEntity_legalName",
   "legalEntity_shortName",
   "legalEntity_legalForm",
   "site_siteBpn",
   "site_name",
   "address_addressBpn",
   "address_name",
   "address_addressType",
   "address_physical_geographicCoordinates_longitude",
   "address_physical_geographicCoordinates_latitude",
   "address_physical_geographicCoordinates_altitude",
   "address_physical_country",
   "address_physical_administrativeAreaLevel1",
   "address_physical_administrativeAreaLevel2",
   "address_physical_administrativeAreaLevel3",
   "address_physical_postalCode",
   "address_physical_city",
   "address_physical_district",
   "address_physical_street_namePrefix",
   "address_physical_street_additionalNamePrefix",
   "address_physical_street_name",
   "address_physical_street_nameSuffix",
   "address_physical_street_additionalNameSuffix",
   "address_physical_street_houseNumber",
   "address_physical_street_houseNumberSupplement",
   "address_physical_street_milestone",
   "address_physical_street_direction",
   "address_physical_companyPostalCode",
   "address_physical_industrialZone",
   "address_physical_building",
   "address_physical_floor",
   "address_physical_door",
   "address_alternative_geographicCoordinates_longitude",
   "address_alternative_geographicCoordinates_latitude",
   "address_alternative_geographicCoordinates_altitude",
   "address_alternative_country",
   "address_alternative_administrativeAreaLevel1",
   "address_alternative_postalCode",
   "address_alternative_city",
   "address_alternative_deliveryServiceType",
   "address_alternative_deliveryServiceQualifier",
   "address_alternative_deliveryServiceNumber"}

CSVRecord_list_attributes ==
  {"identifiers", "states", "roles", "legalEntity_states", "site_states", "address_states"}


(***************************************************************************)
(* Python values                                                           *)
(***************************************************************************)
\* a decoded cell value: the Python type and the value's str() text
PyNone == [t |-> "None", v |-> ""]

PyStr(s) == [t |-> "str", v |-> s]

PyInt(s) == [t |-> "int", v |-> s]

PyFloat(s) == [t |-> "float", v |-> s]

PyBool(b) == [t |-> "bool", v |-> IF b THEN "True" ELSE "False"]

PyDatetime(iso) == [t |-> "datetime", v |-> iso]

PyEnum(type, name) == [t |-> type, v |-> name]

\* an optional str parameter: None or a string
NoneStr == [none |-> TRUE, v |-> ""]

SomeStr(s) == [none |-> FALSE, v |-> s]

\* dictionary keys are compared by object type first: a str key never equals
\* a Column key (Column defines neither __eq__ nor __hash__, and its names are
\* unique once the parameters are checked)
StrKey(name) == [k |-> "str", name |-> name]

ColumnKey(col) == [k |-> "Column", name |-> col.column_name]

\* exceptions: type, the rule that raised, the line number the message
\* carries (0: the message carries none) and the names the message cites
NoError == [type |-> "", rule |-> "", line |-> 0, names |-> << >>]

Raise(type, rule, line, names) == [type |-> type, rule |-> rule, line |-> line, names |-> names]

CSVException(rule, line, names) == Raise("CSVException", rule, line, names)

(***************************************************************************)
(* Typed cell conversion (csv_tools.py, lines 391-430)                     *)
(***************************************************************************)
unsigned_part(s) == IF s # "" /\ Char(s, 1) \in {"+", "-"} THEN SubSeq(s, 2, Len(s)) ELSE s

\* the int a stripped text s with the unsigned part body denotes: v is its
\* str() text ("-0" is 0)
int_of(s, body) ==
  [ok |-> IsDigits(body),
   v  |-> IF ~IsDigits(body) THEN ""
          ELSE (IF s # "" /\ Char(s, 1) = "-" /\ StripLeadingZeros(body) # "0" THEN "-" ELSE "")
               \o StripLeadingZeros(body)]

\* int( value ) for ASCII input: surrounding whitespace and one sign allowed
IntText(value) == int_of(strip(value), unsigned_part(strip(value)))

float_parts(s, ip, fp) ==
  IF /\ (ip = "" \/ IsDigits(ip))
     /\ (fp = "" \/ IsDigits(fp))
     /\ (ip # "" \/ fp # "")
  THEN [ok |-> TRUE,
        v  |-> (IF s # "" /\ Char(s, 1) = "-" THEN "-" ELSE "")
               \o (IF ip = "" THEN "0" ELSE StripLeadingZeros(ip)) \o "."
               \o (IF fp = "" THEN "0" ELSE StripTrailingZeros(fp))]
  ELSE [ok |-> FALSE, v |-> ""]

float_of(s, body, dot) ==
  float_parts(s, IF dot = 0 THEN body ELSE SubSeq(body, 1, dot - 1),
                 IF dot = 0 THEN "" ELSE SubSeq(body, dot + 1, Len(body)))

\* float( value ) for plain decimal numerals "d+", "d+.d*", ".d+" with an
\* optional sign; v is str() of the float, for numerals short enough to be
\* printed back in positional notation
FloatText(value) ==
  float_of(strip(value), unsigned_part(strip(value)), find(unsigned_part(strip(value)), "."))

\* the number a string of decimal digits denotes
RECURSIVE StrToNat(_)
StrToNat(s) ==
  IF s = "" THEN 0
  ELSE 10 * StrToNat(SubSeq(s, 1, Len(s) - 1))
       + (CHOOSE d \in 0..9 : ToString(d) = Char(s, Len(s)))

InRange(s, lo, hi) == IsDigits(s) /\ StrToNat(s) \in lo..hi

\* datetime.datetime.fromisoformat( value ) for the shapes YYYY-MM-DD and
\* YYYY-MM-DDTHH:MM:SS; v is the isoformat() text of the result
DatetimeText(value) ==
  IF /\ Len(value) \in {10, 19}
     /\ InRange(SubSeq(value, 1, 4), 1, 9999)
     /\ Char(value, 5) = "-" /\ Char(value, 8) = "-"
     /\ InRange(SubSeq(value, 6, 7), 1, 12)
     /\ InRange(SubSeq(value, 9, 10), 1,
                IF StrToNat(SubSeq(value, 6, 7)) \in {4, 6, 9, 11} THEN 30
                ELSE IF StrToNat(SubSeq(value, 6, 7)) # 2 THEN 31
                ELSE IF /\ StrToNat(SubSeq(value, 1, 4)) % 4 = 0
                        /\ \/ StrToNat(SubSeq(value, 1, 4)) % 100 # 0
                           \/ StrToNat(SubSeq(value, 1, 4)) % 400 = 0
                THEN 29
                ELSE 28)
     /\ \/ Len(value) = 10
        \/ /\ Char(value, 11) \in {"T", " "}
           /\ InRange(SubSeq(value, 12, 13), 0, 23)
           /\ Char(value, 14) = ":" /\ Char(value, 17) = ":"
           /\ InRange(SubSeq(value, 15, 16), 0, 59)
           /\ InRange(SubSeq(value, 18, 19), 0, 59)
  THEN [ok |-> TRUE,
        v  |-> IF Len(value) = 10 THEN value \o "T00:00:00"
               ELSE SubSeq(value, 1, 10) \o "T" \o SubSeq(value, 12, 19)]
  ELSE [ok |-> FALSE, v |-> ""]

\* a try block of lines 391-430: the converted value, or the exception of
\* its except clause
try_conversion(r, type, rule, col, line) ==
  IF r.ok THEN [err |-> NoError, value |-> [t |-> type, v |-> r.v]]
  ELSE [err |-> CSVException(rule, line, << col.column_name >>), value |-> PyNone]

\* lines 391-430: the type conversion of a value that is not None
type_conversion(col, value, line) ==
  IF col.column_type = "str" THEN [err |-> NoError, value |-> PyStr(value)]
  ELSE IF col.column_type = "int" THEN
    try_conversion(IntText(value), "int", "should be an integer", col, line)
  ELSE IF col.column_type = "float" THEN
    try_conversion(FloatText(replace(value, ",", ".")), "float", "should be a float", col, line)
  ELSE IF col.column_type = "datetime" THEN
    try_conversion(DatetimeText(value), "datetime", "should be a datetime", col, line)
  ELSE IF col.column_type \in DOMAIN EnumTypes THEN
    IF \E i \in DOMAIN EnumTypes[col.column_type] : EnumTypes[col.column_type][i] = value
    THEN [err |-> NoError, value |-> PyEnum(col.column_type, value)]
    ELSE [err |-> CSVException("should be one of", line,
                               << col.column_name >> \o EnumTypes[col.column_type]),
          value |-> PyNone]
  ELSE IF col.column_type = "country_codes" THEN
    try_conversion([ok |-> value \in country_codes, v |-> value], "str", "should be one of", col, line)
  ELSE IF col.column_type = "bool" THEN
    try_conversion([ok |-> lower(value) \in {"1", "true", "0", "false"},
                    v  |-> PyBool(lower(value) \in {"1", "true"}).v],
                   "bool", "should be '1/true' or '0/false'", col, line)
  ELSE [err |-> CSVException("Internal error: Unknown column type", line, << col.column_name >>),
        value |-> PyNone]

\* lines 377-389: the outcome of an empty cell that is not converted
empty_cell(col, line) ==
  IF col.empty = Empty.NotOK
  THEN [err |-> CSVException("is empty", line, << col.column_name >>),
        value |-> PyNone, is_empty |-> TRUE]
  ELSE [err |-> NoError, value |-> PyNone, is_empty |-> TRUE]

cell_result(conv, is_empty) == [err |-> conv.err, value |-> conv.value, is_empty |-> is_empty]

\* mutant: the literal default is stored without type conversion
convert_cell_raw_default(col, cell, line) ==
  IF cell = "" /\ col.empty \in {Empty.NotOK, Empty.ToNone} THEN empty_cell(col, line)
  ELSE IF cell = "" /\ col.empty.e = 3
  THEN [err |-> NoError, value |-> PyStr(col.empty.d), is_empty |-> TRUE]
  ELSE cell_result(type_conversion(col, cell, line), cell = "")

\* lines 377-430: empty handling, then type conversion, of one cell
convert_cell(col, cell, line) ==
  IF cell = "" /\ col.empty \in {Empty.NotOK, Empty.ToNone} THEN empty_cell(col, line)
  ELSE cell_result(type_conversion(col, IF cell = "" /\ col.empty.e = 3 THEN col.empty.d ELSE cell, line),
                   cell = "")

(***************************************************************************)
(* Parameter sets of read_header_csv_with_reader                           *)
(***************************************************************************)
\* re.search of a pattern "^literal" in which "." matches any character
RECURSIVE regex_search(_, _)
regex_search(pattern, s) ==
  IF pattern = "" THEN TRUE
  ELSE IF s = "" THEN FALSE
  ELSE /\ (Char(pattern, 1) = "." \/ Char(pattern, 1) = Char(s, 1))
       /\ regex_search(SubSeq(pattern, 2, Len(pattern)), SubSeq(s, 2, Len(s)))

\* convert_csv._get_all_columns: the NAMES of the matching columns
_get_all_columns(header, pattern) ==
  {StrKey(header[i].column_name) : i \in {j \in DOMAIN header : regex_search(pattern, header[j].column_name)}}

\* convert_csv.convert: the parameters it passes (the others are defaults)
convert_csv_array_groups ==
  << ArrayGroup("identifiers", TRUE, "identifiers.", "CSVIdentifiers"),
     ArrayGroup("roles", FALSE, "", ""),
     ArrayGroup("states", TRUE, "states.", "CSVStates"),
     ArrayGroup("legalEntity_states", TRUE, "legalEntity.states.", "CSVStates"),
     ArrayGroup("site_states", TRUE, "site.states.", "CSVStates"),
     ArrayGroup("address_states", TRUE, "address.states.", "CSVStates") >>

convert_csv_related_columns(header) ==
  << _get_all_columns(header, "address.physical.geographicCoordinates.l"),
     _get_all_columns(header, "address.alternative.geographicCoordinates.l") >>

convert_csv_parameters(caller, header, space_handling, array_groups) ==
  [caller                 |-> caller,
   header                 |-> header,
   make_objects           |-> "CSVRecord",
   space_handling         |-> space_handling,
   ignore_unknown_columns |-> FALSE,
   related_columns        |-> convert_csv_related_columns(header),
   identifier_column      |-> SomeStr("externalId"),
   array_groups           |-> array_groups]

convert_csv_convert ==
  convert_csv_parameters("convert_csv.convert", get_csv_header, SpaceHandling.Collapse,
                         convert_csv_array_groups)

\* sharing_state_csv.get_external_ids: the parameters it passes
get_external_ids ==
  [caller                 |-> "sharing_state_csv.get_external_ids",
   header                 |-> columns(<< << "externalId", "str", Empty.NotOK, FALSE >> >>),
   make_objects           |-> "False",
   space_handling         |-> SpaceHandling.Collapse,
   ignore_unknown_columns |-> TRUE,
   related_columns        |-> << >>,
   identifier_column      |-> SomeStr("externalId"),
   array_groups           |-> << >>]

\* the domain schema with the array groups of convert_csv.convert whose
\* columns the domain schema has, under each whitespace policy
domain_decode(space_handling) ==
  convert_csv_parameters("domain", get_csv_header, space_handling,
                         SubSeq(convert_csv_array_groups, 1, 3))

\* a schema that uses every empty policy: keep (OK), literal defaults, null
policy_header ==
  columns(<< << "id", "str", Empty.NotOK, FALSE >>,
             << "note", "str", Empty.OK, TRUE >>,
             << "count", "int", EmptyDefault("7"), TRUE >>,
             << "flag", "bool", EmptyDefault("false"), TRUE >>,
             << "tags", "str", Empty.ToNone, TRUE >> >>)

policy_decode ==
  [caller                 |-> "policy",
   header                 |-> policy_header,
   make_objects           |-> "True",
   space_handling         |-> SpaceHandling.Strip,
   ignore_unknown_columns |-> TRUE,
   related_columns        |-> << >>,
   identifier_column      |-> SomeStr("id"),
   array_groups           |-> << ArrayGroup("tags", FALSE, "", "") >>]

\* related sets given as Column objects, as the signature's type hint says
column_related_decode ==
  [caller                 |-> "column_related",
   header                 |-> policy_header,
   make_objects           |-> "True",
   space_handling         |-> SpaceHandling.Collapse,
   ignore_unknown_columns |-> FALSE,
   related_columns        |-> << {ColumnKey(policy_header[2]), ColumnKey(policy_header[3])} >>,
   identifier_column      |-> NoneStr,
   array_groups           |-> << >>]

\* a schema whose array group has a prefix, no make_type and columns with a
\* default value and with Empty.NotOK
group_header ==
  columns(<< << "id", "str", Empty.NotOK, FALSE >>,
             << "parts.kind", "str", EmptyDefault("n/a"), TRUE >>,
             << "parts.value", "str", Empty.ToNone, TRUE >>,
             << "parts.unit", "str", Empty.NotOK, TRUE >> >>)

group_decode ==
  [caller                 |-> "group",
   header                 |-> group_header,
   make_objects           |-> "True",
   space_handling         |-> SpaceHandling.Collapse,
   ignore_unknown_columns |-> FALSE,
   related_columns        |-> << >>,
   identifier_column      |-> SomeStr("id"),
   array_groups           |-> << ArrayGroup("parts", TRUE, "parts.", "") >>]

\* the calls: those of the program, the schemas that use every policy, and
\* schemas with one inconsistency each
ParameterSets ==
  {convert_csv_convert, get_external_ids, policy_decode, column_related_decode}
    \cup {domain_decode(sh) : sh \in {SpaceHandling.Keep, SpaceHandling.Strip, SpaceHandling.Collapse}}
    \cup {[policy_decode EXCEPT !.caller = "duplicate_column",
                                !.header = policy_header \o << policy_header[2] >>],
          [policy_decode EXCEPT !.caller = "empty_ok_int",
                                !.header = columns(<< << "id", "str", Empty.NotOK, FALSE >>,
                                                      << "tags", "str", Empty.ToNone, TRUE >>,
                                                      << "count", "int", Empty.OK, TRUE >> >>)],
          [policy_decode EXCEPT !.caller = "unknown_array_column",
                                !.array_groups = << ArrayGroup("labels", FALSE, "", "") >>],
          [policy_decode EXCEPT !.caller = "unknown_related_column",
                                !.related_columns = << {StrKey("note"), StrKey("remark")} >>],
          [policy_decode EXCEPT !.caller = "unknown_identifier_column",
                                !.identifier_column = SomeStr("key")]}

(***************************************************************************)
(* State of one decode call, and of the encode that follows it             *)
(***************************************************************************)
VARIABLES
  params,               \* the keyword arguments of the call
  pc,                   \* "check", "header", "rows", "returned", "raised"
  headerline,           \* the header line read from the reader
  rows,                 \* the data rows read from the reader so far
  line,                 \* line
  result,               \* result
  previous_identifier,  \* previous_identifier
  done_identifiers,     \* done_identifiers
  newdests,             \* newdest of every row that was processed without raising
  error,                \* the exception that left the function
  returned              \* the value handed to the caller: << >> or << result >>

decode_vars ==
  << params, pc, headerline, rows, line, result, previous_identifier,
     done_identifiers, newdests, error, returned >>

VARIABLES
  data,                 \* data of convert_json.convert: the records to encode
  encode_pc,            \* "idle", "convert", "returned", "raised"
  converted,            \* the number of records of data converted so far
  records,              \* records: the csv lines built so far
  unknown_keys,         \* unknown_keys
  warnings,             \* the keys of the "Unknown key" warnings logged so far
  encode_error          \* the exception that left to_dict or convert

encode_vars == << data, encode_pc, converted, records, unknown_keys, warnings, encode_error >>

(***************************************************************************)
(* State of the service: the jobs of app.py, the worker thread of a job    *)
(* and a client that polls its progress                                    *)
(***************************************************************************)
VARIABLES
  jobs,                 \* jobs: the Job objects by uuid
  worker,               \* the thread that runs processing.run_job and its locals
  client                \* a client: its request in progress and the last responses

service_vars == << jobs, worker, client >>

\* app.py line 51: jobs = {}
NoJobs == [u \in {} |-> << >>]

\* no exception is pending
NoException == [type |-> "", msg |-> ""]

\* no thread was started
NoWorker ==
  [func |-> "", pc |-> "none", file |-> << >>, external_ids |-> << >>, record_dicts |-> << >>,
   total |-> 0, page |-> 0 - 1, result |-> << >>, requests |-> << >>, ex |-> NoException]

\* a client that has sent no request
NoClient ==
  [pc |-> "idle", polls |-> 0, progress |-> "", done |-> FALSE, response |-> << >>,
   download |-> << >>]

\* the service before any job is made
ServiceIdle ==
  /\ jobs = NoJobs
  /\ worker = NoWorker
  /\ client = NoClient

(***************************************************************************)
(* read_header_csv_with_reader: parameter checks (lines 184-230)           *)
(***************************************************************************)
\* header_dict: its keys are the column names
header_dict_keys(p) == {StrKey(p.header[i].column_name) : i \in DOMAIN p.header}

\* header_dict[name]: the last column of that name
header_dict(p, name) ==
  p.header[CHOOSE i \in DOMAIN p.header :
             /\ p.header[i].column_name = name
             /\ \A j \in DOMAIN p.header : p.header[j].column_name = name => j <= i]

\* smallest element of a non-empty set of integers
Min(S) == CHOOSE x \in S : \A y \in S : x <= y

Max(S) == CHOOSE x \in S : \A y \in S : x >= y

\* does column h belong to array group ag (lines 219-228)
in_array_group(ag, column_name) ==
  IF ag.has_prefix THEN startswith(column_name, ag.prefix) ELSE column_name = ag.name

\* array_column_name_to_array_index: the last group that claims the column
array_column_names(p) ==
  {p.header[i].column_name : i \in {j \in DOMAIN p.header :
      \E g \in DOMAIN p.array_groups : in_array_group(p.array_groups[g], p.header[j].column_name)}}

array_column_name_to_array_index(p, column_name) ==
  Max({g \in DOMAIN p.array_groups : in_array_group(p.array_groups[g], column_name)})

\* the exception of the parameter checks, NoError if they all pass
check_parameters(p) ==
  LET h == p.header
      dup == {i \in DOMAIN h : \E j \in 1..(i - 1) : h[j].column_name = h[i].column_name}
      badok == {i \in DOMAIN h : h[i].empty = Empty.OK /\ h[i].column_type # "str"}
      badrel == {r \in DOMAIN p.related_columns :
                   \E c \in p.related_columns[r] : c \notin header_dict_keys(p)}
      badag == {g \in DOMAIN p.array_groups :
                  ~ \E i \in DOMAIN h : in_array_group(p.array_groups[g], h[i].column_name)}
  IN
  IF dup # {} THEN CSVException("Duplicate column name", 0, << h[Min(dup)].column_name >>)
  ELSE IF badok # {} THEN
    CSVException("Empty.OK is only allowed for string columns", 0, << h[Min(badok)].column_name >>)
  ELSE IF badrel # {} THEN
    (LET c == CHOOSE c \in p.related_columns[Min(badrel)] : c \notin header_dict_keys(p) IN
     \* the message reads c.column_name, which a str does not have; which
     \* member of the set it names depends on the set's iteration order
     IF c.k = "Column" THEN CSVException("Unknown related column", 0, << >>)
     ELSE Raise("AttributeError", "Unknown related column", 0, << >>))
  ELSE IF ~p.identifier_column.none /\ StrKey(p.identifier_column.v) \notin header_dict_keys(p) THEN
    CSVException("Unknown identifier column", 0, << p.identifier_column.v >>)
  ELSE IF badag # {} THEN
    (LET ag == p.array_groups[Min(badag)] IN
     IF ag.has_prefix THEN CSVException("Unknown array column prefix", 0, << ag.prefix >>)
     ELSE CSVException("Unknown array column", 0, << ag.name >>))
  ELSE NoError

(***************************************************************************)
(* read_header_csv_with_reader: the header line (lines 232-255)            *)
(***************************************************************************)
\* the keys of column_index_to_column: the schema-mapped physical columns
mapped_columns(p, hl) == {i \in DOMAIN hl : StrKey(strip(hl[i])) \in header_dict_keys(p)}

column_index_to_column(p, hl, col_nr) == header_dict(p, strip(hl[col_nr]))

\* the keys of column_to_column_index are Column objects
column_to_column_index_keys(p, hl) ==
  {ColumnKey(column_index_to_column(p, hl, i)) : i \in mapped_columns(p, hl)}

\* column_name_to_index[name], column_to_column_index[col]: the last
\* physical column of that name
column_name_to_index(p, hl, name) == Max({i \in mapped_columns(p, hl) : strip(hl[i]) = name})

\* mutant: unknown header names are ignored whatever the caller asked for
read_header_ignoring(p, hl) ==
  IF \E i \in DOMAIN p.header :
       /\ ~p.header[i].optional
       /\ ColumnKey(p.header[i]) \notin column_to_column_index_keys(p, hl)
  THEN CSVException("Required column is missing", 0, << >>)
  ELSE IF /\ ~p.identifier_column.none
          /\ ~ \E i \in mapped_columns(p, hl) : strip(hl[i]) = p.identifier_column.v
  THEN Raise("KeyError", "identifier_column_index", 0, << p.identifier_column.v >>)
  ELSE NoError

\* the exception of reading the header line, NoError if it is accepted
read_header(p, hl) ==
  LET unknown == (DOMAIN hl) \ mapped_columns(p, hl)
      missing == {i \in DOMAIN p.header :
                    /\ ~p.header[i].optional
                    /\ ColumnKey(p.header[i]) \notin column_to_column_index_keys(p, hl)}
  IN
  IF unknown # {} /\ ~p.ignore_unknown_columns
  THEN CSVException("Unknown column", 0, << hl[Min(unknown)] >>)
  ELSE IF missing # {}
  THEN CSVException("Required column is missing", 0, << p.header[Min(missing)].column_name >>)
  ELSE IF /\ ~p.identifier_column.none
          /\ ~ \E i \in mapped_columns(p, hl) : strip(hl[i]) = p.identifier_column.v
  THEN Raise("KeyError", "identifier_column_index", 0, << p.identifier_column.v >>)
  ELSE NoError

(***************************************************************************)
(* read_header_csv_with_reader: one data row (lines 262-479)               *)
(***************************************************************************)
\* Python objects are functions from attribute names to values
NoAttributes == [a \in {} |-> PyNone]

setattr(obj, name, value) == (name :> value) @@ obj

\* replace an element of a sequence
SetAt(seq, i, value) == [seq EXCEPT ![i] = value]

\* _create_array_object: None for a single-column group, else a new
\* make_type() or SimpleNamespace()
_create_array_object(array_group) ==
  IF ~array_group.has_prefix THEN PyNone
  ELSE IF array_group.make_type = "CSVIdentifiers"
  THEN [type |-> PyNone, value |-> PyNone, issuingBody |-> PyNone]
  ELSE IF array_group.make_type = "CSVStates"
  THEN [validFrom |-> PyNone, validTo |-> PyNone, type |-> PyNone]
  ELSE NoAttributes

\* CSVRecord.__init__ (convert_csv.py, lines 59-119)
CSVRecord ==
  [fields |-> [a \in CSVRecord_scalar_attributes |->
                 IF a = "isOwnCompanyData" THEN PyBool(FALSE) ELSE PyNone],
   lists  |-> [a \in CSVRecord_list_attributes |-> << >>],
   items  |-> << >>]

\* lines 304-315: the new dest; fields are its scalar attributes, lists its
\* list attributes, items its elements when make_objects is False
new_dest(p) ==
  LET base == IF p.make_objects = "CSVRecord" THEN CSVRecord
              ELSE [fields |-> NoAttributes, lists |-> NoAttributes, items |-> << >>]
      names == {replace(p.array_groups[g].name, ".", "_") : g \in DOMAIN p.array_groups}
  IN  IF p.make_objects = "False" THEN base
      ELSE [base EXCEPT !.lists = [a \in names |-> << >>] @@ base.lists]

\* mutant: the cells are used as they were read
space_handled_never(p, hl, row) == row

\* lines 267-272: space handling of the schema-mapped cells
space_handled(p, hl, row) ==
  [i \in DOMAIN row |->
     IF i \notin mapped_columns(p, hl) THEN row[i]
     ELSE IF p.space_handling = SpaceHandling.Strip THEN strip(row[i])
     ELSE IF p.space_handling = SpaceHandling.Collapse THEN collapse(row[i])
     ELSE row[i]]

\* lines 275-284: is some related set partly empty on the row
related_violated(p, hl, row) ==
  \E r \in DOMAIN p.related_columns :
    LET related == p.related_columns[r]
        empty_state(c) ==
          IF c \in column_to_column_index_keys(p, hl)
          THEN row[column_name_to_index(p, hl, c.name)] = ""
          ELSE FALSE
    IN  (\E c \in related : empty_state(c)) /\ ~(\A c \in related : empty_state(c))

\* the schema-mapped physical columns in increasing order
RECURSIVE SortedSeq(_)
SortedSeq(S) == IF S = {} THEN << >> ELSE << Min(S) >> \o SortedSeq(S \ {Min(S)})

\* mutant: normal columns are not checked on a continuation line
sets_normal_column_unchecked(value, is_array_column, col_nr, identifier_column_index) == FALSE

\* lines 340-349: a cell of a continuation line that sets a normal column
sets_normal_column(value, is_array_column, col_nr, identifier_column_index) ==
  value # "" /\ ~is_array_column /\ col_nr # identifier_column_index

\* lines 336-354: the checks of a continuation line
continuation_check(p, hl, row, line_nr) ==
  LET cols == mapped_columns(p, hl)
      nonempty == {i \in cols : row[i] # ""}
      is_array(i) == column_index_to_column(p, hl, i).column_name \in array_column_names(p)
      normal == {i \in cols : sets_normal_column(row[i], is_array(i), i,
                                 column_name_to_index(p, hl, p.identifier_column.v))}
      have_data_for_array ==
        {array_column_name_to_array_index(p, column_index_to_column(p, hl, i).column_name) :
           i \in {j \in nonempty : is_array(j)}}
      group_names == [g \in DOMAIN p.array_groups |-> p.array_groups[g].name]
  IN
  IF normal # {}
  THEN [err |-> CSVException("not allowed in a continuation line", line_nr,
                             << column_index_to_column(p, hl, Min(normal)).column_name >>),
        group |-> 0, columns |-> {}]
  ELSE IF Cardinality(have_data_for_array) > 1
  THEN [err |-> CSVException("Only one of the array groups must be set", line_nr, group_names),
        group |-> 0, columns |-> {}]
  ELSE IF Cardinality(have_data_for_array) = 0
  THEN [err |-> CSVException("One of the array columns must be set", line_nr, group_names),
        group |-> 0, columns |-> {}]
  ELSE [err |-> NoError,
        group |-> CHOOSE g \in have_data_for_array : TRUE,
        columns |-> {column_index_to_column(p, hl, i).column_name : i \in {j \in nonempty : is_array(j)}}]

\* mutant: a group counts as used whatever its cells hold
mark_used_always(array_group_used, ag_index, is_empty) ==
  SetAt(array_group_used, ag_index, TRUE)

\* lines 448-449: a group is used once one of its cells is not empty
mark_used(array_group_used, ag_index, is_empty) ==
  IF ~is_empty THEN SetAt(array_group_used, ag_index, TRUE) ELSE array_group_used

\* lines 434-470: store one converted value.  S is the state of the row:
\* dest, array_group_data, array_group_used, current_array_group (its index)
store(p, S, col, c) ==
  IF S.newdest THEN
    IF col.column_name \notin array_column_names(p) THEN
      IF p.make_objects # "False"
      THEN [S EXCEPT !.dest.fields = setattr(@, col.destination_name, c.value)]
      ELSE [S EXCEPT !.dest.items = Append(@, c.value)]
    ELSE
      LET ag_index == array_column_name_to_array_index(p, col.column_name)
          ag == p.array_groups[ag_index]
          used == mark_used(S.array_group_used, ag_index, c.is_empty)
          object == IF ~ag.has_prefix THEN c.value
                  ELSE setattr(S.array_group_data[ag_index],
                               column_name_for_array_object(col, Len(ag.prefix)), c.value)
      IN  [S EXCEPT !.array_group_used = used,
                    !.array_group_data = SetAt(@, ag_index, object)]
  ELSE
    LET ag == p.array_groups[S.current_array_group]
        l == S.dest.lists[ag.name]
    IN  IF ~ag.has_prefix
        THEN [S EXCEPT !.dest.lists[ag.name] = Append(l, c.value)]
        ELSE \* current_array_object is the last element of the list
             [S EXCEPT !.dest.lists[ag.name] =
                 SetAt(l, Len(l), setattr(l[Len(l)],
                                          column_name_for_array_object(col, Len(ag.prefix)),
                                          c.value))]

\* lines 368-470: convert the columns in physical order, up to the first raise
RECURSIVE convert_columns(_, _, _, _, _, _)
convert_columns(p, hl, cols, row, line_nr, S) ==
  IF cols = << >> THEN S
  ELSE
    LET col == column_index_to_column(p, hl, Head(cols))
        c == convert_cell(col, row[Head(cols)], line_nr)
    IN  IF ~S.newdest /\ col.column_name \notin S.current_array_columns
        THEN convert_columns(p, hl, Tail(cols), row, line_nr, S)
        ELSE IF c.err # NoError THEN [S EXCEPT !.err = c.err]
        ELSE convert_columns(p, hl, Tail(cols), row, line_nr, store(p, S, col, c))

\* lines 472-479: append the data of the used array groups to their lists
RECURSIVE append_array_groups(_, _, _)
append_array_groups(p, S, ag_index) ==
  IF ag_index > Len(p.array_groups) \/ S.err # NoError THEN S
  ELSE IF ~S.array_group_used[ag_index] THEN append_array_groups(p, S, ag_index + 1)
  ELSE LET name == p.array_groups[ag_index].name IN
       IF name \notin DOMAIN S.dest.lists
       THEN [S EXCEPT !.err = Raise("AttributeError", "getattr", 0, << name >>)]
       ELSE append_array_groups(p,
              [S EXCEPT !.dest.lists[name] = Append(@, S.array_group_data[ag_index])],
              ag_index + 1)

\* mutant: only a row with too few fields is rejected
field_count_differs_shorter(row, header_field_count) == Len(row) < header_field_count

\* line 264: the row has another field count than the header line
field_count_differs(row, header_field_count) == Len(row) # header_field_count

\* line 291: previous_identifier is << >> (None) or << identifier >>
is_new_record(identifier, prev) == prev # << identifier >>

\* line 293: the identifier was seen on an earlier line
is_duplicate_identifier(identifier, done) == identifier \in done

\* mutant: the identifier is not remembered
add_done_identifier_forgets(done, identifier) == done

\* line 297
add_done_identifier(done, identifier) == done \cup {identifier}

\* mutant: a continuation line extends the first record
dest_index_first(res) == 1

\* line 333: dest of a continuation line is the dest of the previous
\* iteration, the last record of result
dest_index(res) == Len(res)

\* the locals after the loop body: err is the exception that left it
\* (NoError: the loop goes on)
row_locals(err, res, prev, done, newdest) ==
  [err |-> err, result |-> res, previous_identifier |-> prev,
   done_identifiers |-> done, newdest |-> newdest]

\* lines 302-331: the state of a row that starts a new record
new_record_state(p) ==
  [newdest |-> TRUE, err |-> NoError, dest |-> new_dest(p),
   array_group_data |-> [g \in DOMAIN p.array_groups |-> _create_array_object(p.array_groups[g])],
   array_group_used |-> [g \in DOMAIN p.array_groups |-> FALSE],
   current_array_group |-> 0, current_array_columns |-> {}]

\* lines 356-365: the state of a continuation line; a group with a prefix
\* gets a new array object appended to its list
continuation_state(ag, last, chk) ==
  [newdest |-> FALSE, err |-> NoError,
   dest |-> IF ag.has_prefix
            THEN [last EXCEPT !.lists[ag.name] = Append(@, _create_array_object(ag))]
            ELSE last,
   array_group_data |-> << >>, array_group_used |-> << >>,
   current_array_group |-> chk.group, current_array_columns |-> chk.columns]

\* the outcome T of the columns of a row in result: dest is appended
\* (line 331) or, on a continuation line, is the element dest_index of result
row_result(res, T) ==
  [err |-> T.err,
   result |-> IF T.newdest THEN Append(res, T.dest) ELSE SetAt(res, dest_index(res), T.dest)]

\* lines 336-365, 367-470 on a continuation line
continuation_row(p, hl, cols, row, line_nr, res, chk) ==
  IF chk.err # NoError THEN [err |-> chk.err, result |-> res]
  ELSE row_result(res,
         convert_columns(p, hl, cols, row, line_nr,
                         continuation_state(p.array_groups[chk.group], res[dest_index(res)], chk)))

\* lines 302-479: the row after its identifier was accepted
record_row(p, hl, cols, row, line_nr, res, newdest) ==
  IF ~newdest THEN continuation_row(p, hl, cols, row, line_nr, res,
                                    continuation_check(p, hl, row, line_nr))
  ELSE IF p.make_objects = "False" /\ Len(p.array_groups) > 0
  THEN [err |-> CSVException("array_columns is not supported if make_objects is False", line_nr, << >>),
        result |-> res]
  ELSE row_result(res,
         append_array_groups(p, convert_columns(p, hl, cols, row, line_nr, new_record_state(p)), 1))

accepted_row(T, prev, done, newdest) == row_locals(T.err, T.result, prev, done, newdest)

\* lines 286-479: the row with its identifier
identified_row(p, hl, row, line_nr, res, prev, done, identifier, newdest) ==
  IF ~p.identifier_column.none /\ newdest /\ is_duplicate_identifier(identifier, done)
  THEN row_locals(CSVException("Duplicate identifier", line_nr, << identifier >>),
                  res, prev, done, TRUE)
  ELSE accepted_row(record_row(p, hl, SortedSeq(mapped_columns(p, hl)), row, line_nr, res, newdest),
                    IF p.identifier_column.none THEN prev ELSE << identifier >>,
                    IF ~p.identifier_column.none /\ newdest
                    THEN add_done_identifier(done, identifier) ELSE done,
                    newdest)

\* lines 267-479: the row after space handling
handled_row(p, hl, row, line_nr, res, prev, done, identifier) ==
  IF related_violated(p, hl, row)
  THEN row_locals(CSVException("Either all or none of the related columns must be set", line_nr, << >>),
                  res, prev, done, TRUE)
  ELSE identified_row(p, hl, row, line_nr, res, prev, done, identifier,
                      p.identifier_column.none \/ is_new_record(identifier, prev))

\* lines 262-479: the loop body for one row read from the reader
process_row(p, hl, raw, line_nr, res, prev, done) ==
  IF field_count_differs(raw, Len(hl))
  THEN row_locals(CSVException("Expected columns", line_nr, << ToString(Len(hl)), ToString(Len(raw)) >>),
                  res, prev, done, TRUE)
  ELSE handled_row(p, hl, space_handled(p, hl, raw), line_nr, res, prev, done,
                   \* line 288: the identifier of the row ("" without an identifier column)
                   IF p.identifier_column.none THEN ""
                   ELSE space_handled(p, hl, raw)[column_name_to_index(p, hl, p.identifier_column.v)])

(***************************************************************************)
(* Inputs: the files the reader delivers                                   *)
(***************************************************************************)
DomainHeaderLine ==
  << "externalId", "name1", "identifiers.type", "identifiers.value", "roles", "isOwnCompanyData" >>

DomainRows ==
  { << "A1", "Acme", "LEI", "1234", "SUPPLIER", "true" >>,
    << "A1", "", "TAX", "999", "", "" >>,
    << "A1", "", "", "", "CUSTOMER", "" >>,
    << "A1", "", "TAX", "", "CUSTOMER", "" >>,
    << "A1", "", "", "", "", "" >>,
    << "A1", "Acme", "TAX", "999", "", "" >>,
    << "B1", "Bolt  and Nut", "", "", "", "TRUE" >>,
    << " A1", " ", "", "7", "", "" >>,
    << "B1", "Bolt", "", "", "", "2" >>,
    << "", "Acme", "", "", "", "1" >>,
    << "A1", "Acme" >>,
    << "B1", "Bolt", "", "", "BOGUS", "0" >>,
    << "E1", "Eve", "", "", "supplier", "False" >>,
    << "C1", "Cog", "LEI", "", "", "false" >> }

RolesHeaderLine == << "externalId", "name1", "roles", "roles", "isOwnCompanyData" >>

RolesRows ==
  { << "A1", "Acme", "SUPPLIER", "CUSTOMER", "true" >>,
    << "A1", "", "SUPPLIER", "CUSTOMER", "" >>,
    << "A1", "", "", "CUSTOMER", "" >> }

GeoHeaderLine ==
  << "externalId", " name1 ", "isOwnCompanyData",
     "address.physical.geographicCoordinates.longitude",
     "address.physical.geographicCoordinates.latitude" >>

GeoRows ==
  { << "A1", "Acme", "true", "1,5", "" >>,
    << "B1", "Bolt", "0", "3,14", "2.50" >>,
    << "C1", "Cog", "false", "", "" >>,
    << "D1", "Dot", "false", "1,5,0", "1" >> }

StatesHeaderLine ==
  << "externalId", "name1", "name2", "states.validFrom", "states.validTo", "states.type",
     "address.physical.country", "address.physical.street.name", "address.addressType",
     "isOwnCompanyData" >>

StatesRows ==
  { << "A1", "Acme", "Inc", "2020-01-01", "2021-01-01", "ACTIVE", "DE", "Main St", "LegalAddress", "true" >>,
    << "A1", "", "", "2022-01-01", "2023-01-01T10:00:00", "INACTIVE", "", "", "", "" >>,
    << "B1", "Bolt", "", "2020-01-01", "", "ACTIVE", "", "", "", "false" >>,
    << "C1", "Cog", "", "", "", "", "XX", "", "", "false" >> }

PolicyHeaderLine == << "id", "note", "count", "flag", "tags", "extra" >>

GroupHeaderLine == << "id", "parts.kind", "parts.value", "parts.unit" >>

GroupRows ==
  { << "G1", "k", "v", "u" >>,
    << "G1", "", "w", "u" >>,
    << "G1", "k", "", "" >>,
    << "G2", "", "", "u" >>,
    << "G2", "k", "v", "" >>,
    << "G3", "", "", "" >> }

PolicyRows ==
  { << "P1", "n", "3", "TRUE", "t1", "zz" >>,
    << "P1", "", "", "", "t2", "zz" >>,
    << "P2", "", "", "", "", "" >>,
    << "P2", "", "x", "", "", "" >>,
    << "P3", " ", " ", " ", " ", " " >>,
    << "P3", "", "", "", "", "" >> }

\* the header lines a file may start with
HeaderLines(p) ==
  IF p.caller = "sharing_state_csv.get_external_ids"
  THEN { << "externalId", "other" >>, << "other", " externalId" >>, << "other", "id" >> }
  ELSE IF p.caller = "policy" THEN { PolicyHeaderLine, << "note", "count" >> }
  ELSE IF p.caller = "group" THEN { GroupHeaderLine, << "id", "parts.kind" >> }
  ELSE { DomainHeaderLine, RolesHeaderLine, GeoHeaderLine, StatesHeaderLine,
         << "externalId", "name1", "bogus", "isOwnCompanyData" >>,
         << "externalId", "name1", "identifiers.type" >> }

\* the data rows that may follow a header line
DataRows(hl) ==
  IF hl = DomainHeaderLine THEN DomainRows
  ELSE IF hl = RolesHeaderLine THEN RolesRows
  ELSE IF hl = GeoHeaderLine THEN GeoRows
  ELSE IF hl = StatesHeaderLine THEN StatesRows
  ELSE IF hl = PolicyHeaderLine THEN PolicyRows
  ELSE IF hl = GroupHeaderLine THEN GroupRows
  ELSE { << "A1", "x" >>, << "B1", "" >>, << "", "x" >>, << "A1 ", "y" >>, << "C1" >>,
         << "D1", "x", "y" >> }

(***************************************************************************)
(* Nested values: what CSVRecord.to_dict builds and the API delivers       *)
(***************************************************************************)
\* a nested value: a scalar carries its Python type and its str() text, a
\* list its elements, a dict its items in insertion order
JsonValue(value) == [t |-> value.t, v |-> value.v, items |-> << >>]

JsonStr(s) == JsonValue(PyStr(s))

JsonList(elements) == [t |-> "list", v |-> "", items |-> elements]

JsonDict(items) == [t |-> "dict", v |-> "", items |-> items]

Item(key, value) == [k |-> key, val |-> value]

dict_keys(items) == {items[i].k : i \in DOMAIN items}

\* obj[key]
dict_get(items, key) == items[CHOOSE i \in DOMAIN items : items[i].k = key].val

\* obj[key] = value
dict_set(items, key, value) ==
  IF key \in dict_keys(items)
  THEN [i \in DOMAIN items |-> IF items[i].k = key THEN Item(key, value) ELSE items[i]]
  ELSE Append(items, Item(key, value))

(***************************************************************************)
(* CSVRecord.to_dict (convert_csv.py, lines 121-230)                       *)
(***************************************************************************)
\* bool( value ): the truth value of a decoded value
truth(value) ==
  IF value.t = "None" THEN FALSE
  ELSE IF value.t = "str" THEN value.v # ""
  ELSE IF value.t = "int" THEN value.v # "0"
  ELSE IF value.t = "float" THEN value.v \notin {"0.0", "-0.0"}
  ELSE IF value.t = "bool" THEN value.v = "True"
  ELSE TRUE

\* lines 124-128: the name parts that are set, in the order name1..name9
RECURSIVE nameParts(_, _)
nameParts(self, i) ==
  IF i > 9 THEN << >>
  ELSE (IF truth(self.fields["name" \o ToString(i)])
        THEN << JsonValue(self.fields["name" \o ToString(i)]) >> ELSE << >>)
       \o nameParts(self, i + 1)

\* line 133: one element of "identifiers"
identifier_dict(i) ==
  JsonDict(<< Item("type", JsonValue(i.type)),
              Item("value", JsonValue(i.value)),
              Item("issuingBody", JsonValue(i.issuingBody)) >>)

\* lines 134, 137, 140, 145: a "states" list
state_dicts(states) ==
  JsonList([i \in DOMAIN states |->
              JsonDict(<< Item("validFrom", JsonStr(states[i].validFrom.v)),
                          Item("validTo", JsonStr(states[i].validTo.v)),
                          Item("type", JsonStr(states[i].type.v)) >>)])

\* s.validFrom.isoformat(), s.validTo.isoformat(), s.type.name on None
states_raise(states) ==
  \E i \in DOMAIN states :
    states[i].validFrom.t = "None" \/ states[i].validTo.t = "None" \/ states[i].type.t = "None"

\* the exception to_dict leaves with, NoError if it returns
to_dict_error(self) ==
  IF \/ states_raise(self.lists["states"])
     \/ \E i \in DOMAIN self.lists["roles"] : self.lists["roles"][i].t = "None"
     \/ states_raise(self.lists["legalEntity_states"])
     \/ states_raise(self.lists["site_states"])
     \/ states_raise(self.lists["address_states"])
  THEN Raise("AttributeError", "to_dict", 0, << >>)
  ELSE NoError

\* set_field (lines 224-230)
set_field(obj, field, value) ==
  IF value.t # "None" /\ ~(value.t = "str" /\ value.v = "")
  THEN dict_set(obj, field, IF value.t \in DOMAIN EnumTypes THEN JsonStr(value.v) ELSE JsonValue(value))
  ELSE obj

\* consecutive set_field( obj, field, self.<attribute> ) calls
RECURSIVE set_fields(_, _, _)
set_fields(obj, self, names) ==
  IF names = << >> THEN obj
  ELSE set_fields(set_field(obj, Head(names)[1], self.fields[Head(names)[2]]), self, Tail(names))

\* lines 170-175, 206-211: the coordinates, once one of them is set; a
\* coordinate that is not set is 0 (value or 0)
geographicCoordinates(obj, longitude, latitude, altitude) ==
  IF truth(longitude) \/ truth(latitude) \/ truth(altitude)
  THEN dict_set(obj, "geographicCoordinates",
                JsonDict(<< Item("longitude", JsonValue(IF truth(longitude) THEN longitude ELSE PyInt("0"))),
                            Item("latitude", JsonValue(IF truth(latitude) THEN latitude ELSE PyInt("0"))),
                            Item("altitude", JsonValue(IF truth(altitude) THEN altitude ELSE PyInt("0"))) >>))
  ELSE obj

\* lines 201-202: the street is added if it has an entry
with_street(ppa, street) ==
  IF Len(street) > 0 THEN dict_set(ppa, "street", JsonDict(street)) ELSE ppa

\* lines 169-202
physicalPostalAddress(self) ==
  with_street(
    set_fields(
      geographicCoordinates(<< >>,
        self.fields["address_physical_geographicCoordinates_longitude"],
        self.fields["address_physical_geographicCoordinates_latitude"],
        self.fields["address_physical_geographicCoordinates_altitude"]),
      self,
      << << "country", "address_physical_country" >>,
         << "administrativeAreaLevel1", "address_physical_administrativeAreaLevel1" >>,
         << "administrativeAreaLevel2", "address_physical_administrativeAreaLevel2" >>,
         << "administrativeAreaLevel3", "address_physical_administrativeAreaLevel3" >>,
         << "postalCode", "address_physical_postalCode" >>,
         << "city", "address_physical_city" >>,
         << "district", "address_physical_district" >>,
         << "companyPostalCode", "address_physical_companyPostalCode" >>,
         << "industrialZone", "address_physical_industrialZone" >>,
         << "building", "address_physical_building" >>,
         << "floor", "address_physical_floor" >>,
         << "door", "address_physical_door" >> >>),
    set_fields(<< >>, self,
      << << "namePrefix", "address_physical_street_namePrefix" >>,
         << "additionalNamePrefix", "address_physical_street_additionalNamePrefix" >>,
         << "name", "address_physical_street_name" >>,
         << "nameSuffix", "address_physical_street_nameSuffix" >>,
         << "additionalNameSuffix", "address_physical_street_additionalNameSuffix" >>,
         << "houseNumber", "address_physical_street_houseNumber" >>,
         << "houseNumberSupplement", "address_physical_street_houseNumberSupplement" >>,
         << "milestone", "address_physical_street_milestone" >>,
         << "direction", "address_physical_street_direction" >> >>))

\* lines 205-219
alternativePostalAddress(self) ==
  set_fields(
    geographicCoordinates(<< >>,
      self.fields["address_alternative_geographicCoordinates_longitude"],
      self.fields["address_alternative_geographicCoordinates_latitude"],
      self.fields["address_alternative_geographicCoordinates_altitude"]),
    self,
    << << "country", "address_alternative_country" >>,
       << "administrativeAreaLevel1", "address_alternative_administrativeAreaLevel1" >>,
       << "postalCode", "address_alternative_postalCode" >>,
       << "city", "address_alternative_city" >>,
       << "deliveryServiceType", "address_alternative_deliveryServiceType" >>,
       << "deliveryServiceQualifier", "address_alternative_deliveryServiceQualifier" >>,
       << "deliveryServiceNumber", "address_alternative_deliveryServiceNumber" >> >>)

\* CSVRecord.to_dict, when it returns
to_dict(self) ==
  JsonDict(<<
    Item("externalId", JsonValue(self.fields["externalId"])),
    Item("nameParts", JsonList(nameParts(self, 1))),
    Item("identifiers", JsonList([i \in DOMAIN self.lists["identifiers"] |->
                                    identifier_dict(self.lists["identifiers"][i])])),
    Item("states", state_dicts(self.lists["states"])),
    Item("roles", JsonList([i \in DOMAIN self.lists["roles"] |-> JsonStr(self.lists["roles"][i].v)])),
    Item("legalEntity", JsonDict(set_fields(
      << Item("states", state_dicts(self.lists["legalEntity_states"])) >>,
      self,
      << << "legalEntityBpn", "legalEntity_legalEntityBpn" >>,
         << "legalName", "legalEntity_legalName" >>,
         << "shortName", "legalEntity_shortName" >>,
         << "legalForm", "legalEntity_legalForm" >> >>))),
    Item("site", JsonDict(set_fields(
      << Item("states", state_dicts(self.lists["site_states"])) >>,
      self,
      << << "siteBpn", "site_siteBpn" >>,
         << "name", "site_name" >> >>))),
    Item("address", JsonDict(set_fields(
      << Item("physicalPostalAddress", JsonDict(physicalPostalAddress(self))),
         Item("alternativePostalAddress", JsonDict(alternativePostalAddress(self))),
         Item("states", state_dicts(self.lists["address_states"])) >>,
      self,
      << << "addressBpn", "address_addressBpn" >>,
         << "name", "address_name" >>,
         << "addressType", "address_addressType" >> >>))),
    Item("isOwnCompanyData", JsonValue(self.fields["isOwnCompanyData"])) >>)

(***************************************************************************)
(* convert_json.py                                                         *)
(***************************************************************************)
\* map_abbreviations.get( key, key )
map_abbreviations(key) ==
  IF key = "physicalPostalAddress" THEN "physical"
  ELSE IF key = "alternativePostalAddress" THEN "alternative"
  ELSE key

\* mutant: every scalar is written as str() gives it
convert_value_str(value) ==
  IF value.t = "None" THEN ""
  ELSE IF value.t \in {"dict", "list"} THEN "internal error 2"
  ELSE value.v

\* convert_value (lines 201-213)
convert_value(value) ==
  IF value.t = "None" THEN ""
  ELSE IF value.t \in {"dict", "list"} THEN "internal error 2"
  ELSE IF value.t = "float" THEN replace(value.v, ".", ",")
  ELSE IF value.t = "bool" THEN (IF value.v = "True" THEN "true" ELSE "false")
  ELSE value.v

\* mutant: a schema column is missing from the dict
column_name_to_column_incomplete ==
  {get_csv_header[i].column_name : i \in DOMAIN get_csv_header} \ {"isOwnCompanyData"}

\* lines 57-60: the keys of column_name_to_column
column_name_to_column == {get_csv_header[i].column_name : i \in DOMAIN get_csv_header}

\* a csv line: a dict from column names to strings
EmptyLine == [c \in {} |-> ""]

\* d[key] = value for the keys of a dict d
line_set(d, key, value) == (key :> value) @@ d

\* the exception of element[key] for the keys a group's converter reads
element_error(element, keys) ==
  IF element.t # "dict" THEN Raise("TypeError", "getitem", 0, << >>)
  ELSE IF \E i \in DOMAIN keys : keys[i] \notin dict_keys(element.items)
  THEN Raise("KeyError", "getitem", 0,
             << keys[Min({i \in DOMAIN keys : keys[i] \notin dict_keys(element.items)})] >>)
  ELSE NoError

\* convert_identifier (lines 146-162): the keys it sets in d.  external_id
\* is the text of the record's externalId, a str in every input
convert_identifier(identifier, d, external_id) ==
  line_set(line_set(line_set(line_set(d,
    "identifiers.type", convert_value(dict_get(identifier.items, "type"))),
    "identifiers.value", convert_value(dict_get(identifier.items, "value"))),
    "identifiers.issuingBody", convert_value(dict_get(identifier.items, "issuingBody"))),
    "externalId", external_id)

\* convert_states (lines 165-181)
convert_states(state, d, external_id, full_key) ==
  line_set(line_set(line_set(line_set(d,
    full_key \o ".validFrom", convert_value(dict_get(state.items, "validFrom"))),
    full_key \o ".validTo", convert_value(dict_get(state.items, "validTo"))),
    full_key \o ".type", convert_value(dict_get(state.items, "type"))),
    "externalId", external_id)

\* mutant: the line of a role does not get the identifier
convert_roles_anonymous(role, d, external_id) == line_set(d, "roles", convert_value(role))

\* convert_roles (lines 184-198)
convert_roles(role, d, external_id) ==
  line_set(line_set(d, "roles", convert_value(role)), "externalId", external_id)

\* lines 111-131: the repeating group a key is recognized as, "" if none
group_of(full_key) ==
  IF full_key = "identifiers" THEN "identifiers"
  ELSE IF full_key = "states" \/ endswith(full_key, ".states") THEN "states"
  ELSE IF full_key = "roles" THEN "roles"
  ELSE ""

\* the converter of a group applied to one element
convert_element(group, element, d, external_id, full_key) ==
  IF group = "identifiers" THEN convert_identifier(element, d, external_id)
  ELSE IF group = "states" THEN convert_states(element, d, external_id, full_key)
  ELSE convert_roles(element, d, external_id)

\* the exception of converting one element of a group
convert_element_error(group, element) ==
  IF group = "identifiers" THEN element_error(element, << "type", "value", "issuingBody" >>)
  ELSE IF group = "states" THEN element_error(element, << "validFrom", "validTo", "type" >>)
  ELSE NoError

\* the first exception among the elements of a group
group_error(group, elements) ==
  IF \E i \in DOMAIN elements : convert_element_error(group, elements[i]) # NoError
  THEN convert_element_error(group,
         elements[Min({i \in DOMAIN elements : convert_element_error(group, elements[i]) # NoError})])
  ELSE NoError

\* mutant: value[0:], the first element gets a line of its own as well
rest_elements_all(value) == value

\* value[1:]
rest_elements(value) == SubSeq(value, 2, Len(value))

\* the lines of the elements value[1:], each in a new dict
RECURSIVE additional_group_lines(_, _, _, _)
additional_group_lines(group, elements, external_id, full_key) ==
  IF elements = << >> THEN << >>
  ELSE << convert_element(group, Head(elements), EmptyLine, external_id, full_key) >>
       \o additional_group_lines(group, Tail(elements), external_id, full_key)

\* lines 111-131: value[0] is written to dest, each of value[1:] to a new
\* line.  E is the state of the conversion of one record: dest,
\* additional_lines, unknown_keys and the exception that ended it.  The
\* value of a group is a list or None in every input
convert_group(group, value, external_id, full_key, E) ==
  IF value.t # "list" THEN [E EXCEPT !.err = Raise("TypeError", "len", 0, << full_key >>)]
  ELSE IF group_error(group, value.items) # NoError
  THEN [E EXCEPT !.err = group_error(group, value.items)]
  ELSE [E EXCEPT
          !.dest = IF Len(value.items) > 0
                   THEN convert_element(group, value.items[1], @, external_id, full_key)
                   ELSE @,
          !.additional_lines =
             @ \o additional_group_lines(group, rest_elements(value.items), external_id, full_key)]

\* lines 104-109: dest[ f"name{num}" ] for every part
RECURSIVE convert_name_parts(_, _, _)
convert_name_parts(parts, num, dest) ==
  IF parts = << >> THEN dest
  ELSE convert_name_parts(Tail(parts), num + 1,
                          line_set(dest, "name" \o ToString(num), convert_value(Head(parts))))

RECURSIVE convert_record(_, _, _, _)
RECURSIVE convert_field(_, _, _, _)
\* lines 101-143: the body of the loop for one key of input_record
convert_field(full_key, value, external_id, E) ==
  IF full_key = "nameParts" THEN
    IF value.t # "list" THEN [E EXCEPT !.err = Raise("TypeError", "iter", 0, << full_key >>)]
    ELSE [E EXCEPT !.dest = convert_name_parts(value.items, 1, @)]
  ELSE IF group_of(full_key) # ""
  THEN convert_group(group_of(full_key), value, external_id, full_key, E)
  ELSE IF value.t = "dict"
  THEN convert_record(value.items, external_id, full_key \o ".", E)
  ELSE IF value.t = "list" THEN [E EXCEPT !.dest = line_set(@, full_key, "internal error 1")]
  ELSE IF full_key \in column_name_to_column
  THEN [E EXCEPT !.dest = line_set(@, full_key, convert_value(value))]
  ELSE IF value.t # "None" THEN [E EXCEPT !.unknown_keys = @ \cup {full_key}]
  ELSE E

\* convert_record (lines 80-143): the items of input_record in order, up to
\* the first exception
convert_record(input_record, external_id, path, E) ==
  IF input_record = << >> \/ E.err # NoError THEN E
  ELSE convert_record(Tail(input_record), external_id, path,
         convert_field(path \o map_abbreviations(Head(input_record).k),
                       Head(input_record).val, external_id, E))

\* lines 66-73: one iteration of the loop over data
convert_input_record(input_record, unknown) ==
  IF "externalId" \notin dict_keys(input_record.items)
  THEN [dest |-> EmptyLine, additional_lines |-> << >>, unknown_keys |-> unknown,
        err |-> Raise("KeyError", "getitem", 0, << "externalId" >>)]
  ELSE convert_record(input_record.items, dict_get(input_record.items, "externalId").v, "",
                      [dest |-> EmptyLine, additional_lines |-> << >>,
                       unknown_keys |-> unknown, err |-> NoError])

(***************************************************************************)
(* Inputs: the records the API delivers to convert_json.convert            *)
(***************************************************************************)
\* number of records of a download
MaxRecords == 2

\* the records of a download
JsonRecords ==
  LET JsonNone == JsonValue(PyNone)
      JsonIdentifier(type, value, issuingBody) ==
        JsonDict(<< Item("type", JsonStr(type)), Item("value", JsonStr(value)),
                    Item("issuingBody", issuingBody) >>)
      JsonState(validFrom, validTo, type) ==
        JsonDict(<< Item("validFrom", JsonStr(validFrom)), Item("validTo", validTo),
                    Item("type", JsonStr(type)) >>)
  IN
  { \* name parts, identifiers and roles with more than one element
    JsonDict(<< Item("externalId", JsonStr("A1")),
                Item("nameParts", JsonList(<< JsonStr("Acme"), JsonStr("Corp") >>)),
                Item("identifiers", JsonList(<< JsonIdentifier("LEI", "1234", JsonNone),
                                                JsonIdentifier("TAX", "999", JsonStr("Office")) >>)),
                Item("states", JsonList(<< >>)),
                Item("roles", JsonList(<< JsonStr("SUPPLIER"), JsonStr("CUSTOMER") >>)),
                Item("isOwnCompanyData", JsonValue(PyBool(TRUE))) >>),
    \* states, states under a sub-object, abbreviated address keys
    JsonDict(<< Item("externalId", JsonStr("B1")),
                Item("nameParts", JsonList(<< JsonStr("Bolt") >>)),
                Item("identifiers", JsonList(<< >>)),
                Item("states", JsonList(<< JsonState("2020-01-01T00:00:00", JsonNone, "ACTIVE"),
                                           JsonState("2021-01-01T00:00:00", JsonStr("2022-01-01T00:00:00"), "INACTIVE") >>)),
                Item("legalEntity", JsonDict(<<
                  Item("legalName", JsonStr("Bolt AG")),
                  Item("states", JsonList(<< JsonState("2020-01-01T00:00:00", JsonNone, "ACTIVE"),
                                             JsonState("2023-01-01T00:00:00", JsonNone, "INACTIVE") >>)) >>)),
                Item("address", JsonDict(<<
                  Item("physicalPostalAddress", JsonDict(<<
                    Item("geographicCoordinates", JsonDict(<<
                      Item("longitude", JsonValue(PyFloat("1.5"))),
                      Item("latitude", JsonValue(PyInt("0"))),
                      Item("altitude", JsonNone) >>)),
                    Item("country", JsonStr("DE")) >>)),
                  Item("alternativePostalAddress", JsonNone) >>)),
                Item("isOwnCompanyData", JsonValue(PyBool(FALSE))) >>),
    \* three identifiers, unknown keys, a list that is no repeating group
    JsonDict(<< Item("externalId", JsonStr("C1")),
                Item("nameParts", JsonList(<< JsonList(<< >>) >>)),
                Item("identifiers", JsonList(<< JsonIdentifier("LEI", "1", JsonNone),
                                                JsonIdentifier("TAX", "2", JsonNone),
                                                JsonIdentifier("VAT", "3", JsonNone) >>)),
                Item("tenantBpnl", JsonStr("BPNL1")),
                Item("confidenceCriteria", JsonDict(<<
                  Item("numberOfSharingMembers", JsonValue(PyInt("3"))) >>)),
                Item("tags", JsonList(<< JsonStr("a") >>)),
                Item("site", JsonNone) >>),
    \* ten name parts
    JsonDict(<< Item("externalId", JsonStr("D1")),
                Item("nameParts", JsonList(<< JsonStr("n1"), JsonStr("n2"), JsonStr("n3"),
                                              JsonStr("n4"), JsonStr("n5"), JsonStr("n6"),
                                              JsonStr("n7"), JsonStr("n8"), JsonStr("n9"),
                                              JsonStr("n10") >>)) >>),
    \* no externalId
    JsonDict(<< Item("nameParts", JsonList(<< JsonStr("Egg") >>)) >>),
    \* an identifier without issuingBody
    JsonDict(<< Item("externalId", JsonStr("F1")),
                Item("identifiers", JsonList(<< JsonIdentifier("LEI", "1", JsonNone),
                                                JsonDict(<< Item("type", JsonStr("TAX")),
                                                            Item("value", JsonStr("2")) >>) >>)) >>),
    \* null instead of a list
    JsonDict(<< Item("externalId", JsonStr("G1")),
                Item("nameParts", JsonNone) >>) }

\* the downloads: up to MaxRecords records
RECURSIVE JsonData(_)
JsonData(n) ==
  IF n = 0 THEN {<< >>}
  ELSE JsonData(n - 1) \cup {Append(d, r) : d \in {x \in JsonData(n - 1) : Len(x) = n - 1}, r \in JsonRecords}

(***************************************************************************)
(* read_header_csv_with_reader as a state machine                          *)
(***************************************************************************)
\* a CSV file is about to be decoded (an upload), or downloaded records are
\* about to be encoded
Init ==
  /\ \/ /\ params \in ParameterSets
        /\ pc = "check"
        /\ data = << >>
        /\ encode_pc = "idle"
     \/ /\ params = [caller                 |-> "",
                    header                 |-> << >>,
                    make_objects           |-> "False",
                    space_handling         |-> SpaceHandling.Keep,
                    ignore_unknown_columns |-> FALSE,
                    related_columns        |-> << >>,
                    identifier_column      |-> NoneStr,
                    array_groups           |-> << >>]
        /\ pc = "idle"
        /\ data \in JsonData(MaxRecords)
        /\ encode_pc = "convert"
  /\ headerline = << >>
  /\ rows = << >>
  /\ line = 1
  /\ result = << >>
  /\ previous_identifier = << >>
  /\ done_identifiers = {}
  /\ newdests = << >>
  /\ error = NoError
  /\ returned = << >>
  /\ converted = 0
  /\ records = << >>
  /\ unknown_keys = {}
  /\ warnings = << >>
  /\ encode_error = NoError
  /\ ServiceIdle

\* mutant: the parameters are not validated
CheckParameters_skipped ==
  /\ pc = "check"
  /\ error' = NoError
  /\ pc' = "header"
  /\ UNCHANGED << params, headerline, rows, line, result, previous_identifier,
                  done_identifiers, newdests, returned >>
  /\ UNCHANGED encode_vars
  /\ UNCHANGED service_vars

\* lines 184-230: validate the parameters
CheckParameters ==
  /\ pc = "check"
  /\ error' = check_parameters(params)
  /\ pc' = IF error'.type = "" THEN "header" ELSE "raised"
  /\ UNCHANGED << params, headerline, rows, line, result, previous_identifier,
                  done_identifiers, newdests, returned >>
  /\ UNCHANGED encode_vars
  /\ UNCHANGED service_vars

\* lines 232-255: read and check the header line
ReadHeader ==
  /\ pc = "header"
  /\ \E hl \in HeaderLines(params) :
       /\ headerline' = hl
       /\ error' = read_header(params, hl)
  /\ pc' = IF error'.type = "" THEN "rows" ELSE "raised"
  /\ UNCHANGED << params, rows, line, result, previous_identifier,
                  done_identifiers, newdests, returned >>
  /\ UNCHANGED encode_vars
  /\ UNCHANGED service_vars

\* line 234 on a reader without any line: next( reader ) raises
EmptyFile ==
  /\ pc = "header"
  /\ error' = Raise("StopIteration", "next", 0, << >>)
  /\ pc' = "raised"
  /\ UNCHANGED << params, headerline, rows, line, result, previous_identifier,
                  done_identifiers, newdests, returned >>
  /\ UNCHANGED encode_vars
  /\ UNCHANGED service_vars

\* lines 262-479: one iteration of the loop over the data rows
ProcessRow ==
  /\ pc = "rows"
  /\ Len(rows) < MaxRows
  /\ \E row \in DataRows(headerline) :
       /\ rows' = Append(rows, row)
       /\ \E r \in {process_row(params, headerline, row, line + 1, result,
                                 previous_identifier, done_identifiers)} :
            /\ line' = line + 1
            /\ result' = r.result
            /\ previous_identifier' = r.previous_identifier
            /\ done_identifiers' = r.done_identifiers
            /\ error' = r.err
            /\ newdests' = IF r.err.type = "" THEN Append(newdests, r.newdest) ELSE newdests
            /\ pc' = IF r.err.type = "" THEN "rows" ELSE "raised"
  /\ UNCHANGED << params, headerline, returned >>
  /\ UNCHANGED encode_vars
  /\ UNCHANGED service_vars

\* mutant: the records built so far are returned although a row raised
Return_after_raise ==
  /\ pc \in {"rows", "raised"}
  /\ returned' = << result >>
  /\ pc' = "returned"
  /\ UNCHANGED << params, headerline, rows, line, result, previous_identifier,
                  done_identifiers, newdests, error >>
  /\ UNCHANGED encode_vars
  /\ UNCHANGED service_vars

\* line 481: the reader is exhausted, the result is returned
Return ==
  /\ pc = "rows"
  /\ returned' = << result >>
  /\ pc' = "returned"
  /\ UNCHANGED << params, headerline, rows, line, result, previous_identifier,
                  done_identifiers, newdests, error >>
  /\ UNCHANGED encode_vars
  /\ UNCHANGED service_vars

(***************************************************************************)
(* to_dict of every decoded record, and convert_json.convert               *)
(***************************************************************************)
\* processing.py line 91: record_dicts = [ d.to_dict() for d in record_objects ];
\* the dicts are the data of the encoder
ToDict ==
  /\ pc = "returned"
  /\ params.make_objects = "CSVRecord"
  /\ encode_pc = "idle"
  /\ encode_error' = IF \E i \in DOMAIN returned[1] : to_dict_error(returned[1][i]) # NoError
                     THEN Raise("AttributeError", "to_dict", 0, << >>)
                     ELSE NoError
  /\ encode_pc' = IF encode_error'.type = "" THEN "convert" ELSE "raised"
  /\ data' = IF encode_error'.type = ""
             THEN [i \in DOMAIN returned[1] |-> to_dict(returned[1][i])]
             ELSE data
  /\ UNCHANGED << converted, records, unknown_keys, warnings >>
  /\ UNCHANGED decode_vars
  /\ UNCHANGED service_vars

\* mutant: the identifiers seen by decode and the unknown keys of encode are
\* one set of the module, emptied when a record is encoded
ConvertRecord_sharing ==
  /\ encode_pc = "convert"
  /\ converted < Len(data)
  /\ \E E \in {convert_input_record(data[converted + 1], unknown_keys)} :
       /\ encode_error' = E.err
       /\ encode_pc' = IF E.err.type = "" THEN "convert" ELSE "raised"
       /\ records' = IF E.err.type = "" THEN (records \o << E.dest >>) \o E.additional_lines
                     ELSE records
       /\ unknown_keys' = E.unknown_keys
       /\ converted' = IF E.err.type = "" THEN converted + 1 ELSE converted
  /\ done_identifiers' = {}
  /\ UNCHANGED << data, warnings >>
  /\ UNCHANGED << params, pc, headerline, rows, line, result, previous_identifier,
                  newdests, error, returned >>
  /\ UNCHANGED service_vars

\* convert_json.py lines 66-73: one iteration of the loop over data
ConvertRecord ==
  /\ encode_pc = "convert"
  /\ converted < Len(data)
  /\ \E E \in {convert_input_record(data[converted + 1], unknown_keys)} :
       /\ encode_error' = E.err
       /\ encode_pc' = IF E.err.type = "" THEN "convert" ELSE "raised"
       /\ records' = IF E.err.type = "" THEN (records \o << E.dest >>) \o E.additional_lines
                     ELSE records
       /\ unknown_keys' = E.unknown_keys
       /\ converted' = IF E.err.type = "" THEN converted + 1 ELSE converted
  /\ UNCHANGED << data, warnings >>
  /\ UNCHANGED decode_vars
  /\ UNCHANGED service_vars

\* convert_json.py lines 74-77: one warning for every key of
\* sorted( unknown_keys ), then the lines and csv_header are returned
ConvertReturn ==
  /\ encode_pc = "convert"
  /\ converted = Len(data)
  /\ warnings' = [i \in 1..Cardinality(unknown_keys) |->
                    CHOOSE key \in unknown_keys :
                      Cardinality({k \in unknown_keys : str_lt(k, key)}) = i - 1]
  /\ encode_pc' = "returned"
  /\ UNCHANGED << data, converted, records, unknown_keys, encode_error >>
  /\ UNCHANGED decode_vars
  /\ UNCHANGED service_vars

Next ==
  \/ CheckParameters \/ ReadHeader \/ EmptyFile \/ ProcessRow \/ Return
  \/ ToDict \/ ConvertRecord \/ ConvertReturn

vars == << decode_vars, encode_vars, service_vars >>

Spec == Init /\ [][Next]_vars


(***************************************************************************)
(* Vocabulary of the properties                                            *)
(***************************************************************************)
HasIdentifier == ~params.identifier_column.none

\* the physical column that holds the identifier
identifier_column_index == column_name_to_index(params, headerline, params.identifier_column.v)

\* row i of the input after the whitespace policy
Cleaned(i) == space_handled(params, headerline, rows[i])

\* the identifier of input row i
Ident(i) == Cleaned(i)[identifier_column_index]

\* decode has not raised: every row read so far was processed
Running == pc \in {"rows", "returned"}

\* the schema column of physical column i
ColumnAt(i) == column_index_to_column(params, headerline, i)

Mapped == mapped_columns(params, headerline)

\* the array groups (indexes) that have a non-empty cell on input row i
GroupsWithData(i) ==
  {g \in DOMAIN params.array_groups :
     \E c \in Mapped : /\ in_array_group(params.array_groups[g], ColumnAt(c).column_name)
                       /\ Cleaned(i)[c] # ""}

\* the non-empty cells of input row i in columns that belong to no group
\* and are not the identifier column
NormalCellsSet(i) ==
  {c \in Mapped : /\ Cleaned(i)[c] # ""
                  /\ c # identifier_column_index
                  /\ ~ \E g \in DOMAIN params.array_groups :
                         in_array_group(params.array_groups[g], ColumnAt(c).column_name)}

\* the number of records started by the input rows 1..i
RECURSIVE RecordOf(_)
RecordOf(i) == IF i = 0 THEN 0 ELSE RecordOf(i - 1) + (IF newdests[i] THEN 1 ELSE 0)

\* a sequence without the repetitions of its elements, first occurrences kept
RECURSIVE FirstSeen(_)
FirstSeen(s) ==
  IF s = << >> THEN << >>
  ELSE LET f == FirstSeen(SubSeq(s, 1, Len(s) - 1)) IN
       IF \E k \in DOMAIN f : f[k] = s[Len(s)] THEN f ELSE Append(f, s[Len(s)])

\* the decoded identifier of a record
RecordIdent(r) ==
  IF params.make_objects = "False" THEN r.items[1].v
  ELSE r.fields[header_dict(params, params.identifier_column.v).destination_name].v

\* the input rows (indexes, in order) whose identifier is id and on which a
\* column of the "identifiers." group is set
RECURSIVE IdentifierRows(_, _)
IdentifierRows(id, n) ==
  IF n = 0 THEN << >>
  ELSE IF Ident(n) = id /\ (Cleaned(n)[3] # "" \/ Cleaned(n)[4] # "")
  THEN Append(IdentifierRows(id, n - 1), n)
  ELSE IdentifierRows(id, n - 1)

CellOrNone(cell) == IF cell = "" THEN PyNone ELSE PyStr(cell)

(***************************************************************************)
(* C1: on a successful decode with an identifier column there is exactly   *)
(* one Record per distinct identifier of the input, in order of first      *)
(* appearance, and every row of an identifier contributes to that Record:  *)
(* its identifiers list holds the elements of those rows in row order.     *)
(***************************************************************************)
C1_OneRecordPerIdentifier ==
  (pc = "returned" /\ HasIdentifier) =>
    LET res == returned[1] IN
    /\ [k \in DOMAIN res |-> RecordIdent(res[k])] = FirstSeen([i \in DOMAIN rows |-> Ident(i)])
    /\ headerline = DomainHeaderLine =>
         \A k \in DOMAIN res :
           LET from == IdentifierRows(RecordIdent(res[k]), Len(rows)) IN
           res[k].lists["identifiers"] =
             [e \in DOMAIN from |->
                [type |-> CellOrNone(Cleaned(from[e])[3]),
                 value |-> CellOrNone(Cleaned(from[e])[4]),
                 issuingBody |-> PyNone]]

\* two rows of one identifier gave one Record with the elements of both
C1_Witness ==
  /\ pc = "returned" /\ HasIdentifier /\ headerline = DomainHeaderLine
  /\ Len(rows) = 3 /\ Len(returned[1]) = 2
  /\ Ident(1) = Ident(2)
  /\ Len(returned[1][1].lists["identifiers"]) = 2

(***************************************************************************)
(* C2: a row whose identifier differs from the preceding row's identifier  *)
(* but equals an earlier row's identifier makes decode fail, and decode    *)
(* never starts a second Record for an identifier it has already seen.     *)
(***************************************************************************)
C2_NoReappearingIdentifier ==
  (HasIdentifier /\ Running) =>
    /\ \A j \in DOMAIN rows :
         ~(/\ j > 1 /\ Ident(j) # Ident(j - 1)
           /\ \E i \in 1..(j - 1) : Ident(i) = Ident(j))
    /\ \A i, j \in DOMAIN newdests :
         (i < j /\ newdests[i] /\ newdests[j]) => Ident(i) # Ident(j)

\* rows A, B, A: the third row raised the duplicate-identifier error
C2_Witness ==
  /\ pc = "raised" /\ error.rule = "Duplicate identifier"
  /\ Len(rows) = 3 /\ Len(rows[3]) = Len(headerline)
  /\ Ident(3) = Ident(1) /\ Ident(3) # Ident(2)

(***************************************************************************)
(* C3: a continuation row (identifier equal to the preceding row's) makes  *)
(* decode fail if no array-group column is non-empty on it, if columns of  *)
(* two or more groups are non-empty on it, or if a non-empty column on it  *)
(* is neither an array-group column nor the identifier column.             *)
(***************************************************************************)
C3_ContinuationRowChecked ==
  (HasIdentifier /\ Running) =>
    \A j \in DOMAIN rows :
      (j > 1 /\ Ident(j) = Ident(j - 1)) =>
        /\ Cardinality(GroupsWithData(j)) = 1
        /\ NormalCellsSet(j) = {}

\* a continuation row with two groups set was rejected
C3_Witness ==
  /\ pc = "raised" /\ error.rule = "Only one of the array groups must be set"
  /\ Len(rows) >= 2 /\ Ident(Len(rows)) = Ident(Len(rows) - 1)
  /\ Cardinality(GroupsWithData(Len(rows))) = 2

\* the step processed a row without raising; newdest tells its kind
RowAccepted(newdest) ==
  /\ pc = "rows" /\ pc' = "rows"
  /\ Len(newdests') = Len(newdests) + 1
  /\ newdests'[Len(newdests')] = newdest

(***************************************************************************)
(* C4: a valid continuation row appends exactly one new element to the     *)
(* list of exactly one array group of the most recent Record; it adds no   *)
(* Record and leaves every scalar field, every other group list and all    *)
(* earlier Records unchanged.                                              *)
(***************************************************************************)
C4_ContinuationAppendsOne ==
  [][RowAccepted(FALSE) =>
       /\ Len(result') = Len(result)
       /\ \A k \in 1..(Len(result) - 1) : result'[k] = result[k]
       /\ LET old == result[Len(result)]
              new == result'[Len(result)]
          IN  /\ new.fields = old.fields
              /\ new.items = old.items
              /\ DOMAIN new.lists = DOMAIN old.lists
              /\ \E g \in DOMAIN old.lists :
                   /\ Len(new.lists[g]) = Len(old.lists[g]) + 1
                   /\ SubSeq(new.lists[g], 1, Len(old.lists[g])) = old.lists[g]
                   /\ \A h \in DOMAIN old.lists \ {g} : new.lists[h] = old.lists[h]]_vars

(***************************************************************************)
(* C5: on a row that starts a new Record every array group's list starts   *)
(* empty and holds, at the end of the row, exactly one element if one of   *)
(* the group's columns is non-empty on the row and none otherwise; the     *)
(* non-group columns are assigned directly to the Record.                  *)
(***************************************************************************)
C5_NewRecordRow ==
  [][RowAccepted(TRUE) =>
       LET rec == result'[Len(result')]
           row == space_handled(params, headerline, rows'[Len(rows')])
           groups == params.array_groups
           group_columns(g) == {c \in Mapped : in_array_group(groups[g], ColumnAt(c).column_name)}
           normal == {c \in Mapped : \A g \in DOMAIN groups : c \notin group_columns(g)}
           value(c) == convert_cell(ColumnAt(c), row[c], line').value
       IN  /\ result' = Append(result, rec)
           /\ \A g \in DOMAIN groups :
                Len(rec.lists[groups[g].name]) =
                  IF \E c \in group_columns(g) : row[c] # "" THEN 1 ELSE 0
           /\ \A l \in DOMAIN rec.lists :
                (\A g \in DOMAIN groups : groups[g].name # l) => rec.lists[l] = << >>
           /\ params.make_objects # "False" =>
                \A c \in normal :
                  c = column_name_to_index(params, headerline, ColumnAt(c).column_name)
                    => rec.fields[ColumnAt(c).destination_name] = value(c)
           /\ params.make_objects = "False" =>
                rec.items = [k \in 1..Cardinality(normal) |-> value(SortedSeq(normal)[k])]]_vars

\* the last row started a Record that has an identifiers element and no role
C5_Witness ==
  /\ pc = "rows" /\ headerline = DomainHeaderLine
  /\ newdests # << >> /\ newdests[Len(newdests)]
  /\ Cleaned(Len(rows))[3] # "" /\ Cleaned(Len(rows))[5] = ""
  /\ Len(result[Len(result)].lists["identifiers"]) = 1
  /\ result[Len(result)].lists["roles"] = << >>
  /\ result[Len(result)].fields["name1"].v = Cleaned(Len(rows))[2]

(***************************************************************************)
(* C6: for every RelatedColumnSet and every data row, if among the set's   *)
(* columns that are present in the file some cells are empty and others    *)
(* are non-empty, decode fails.                                            *)
(***************************************************************************)
C6_RelatedColumnsChecked ==
  Running =>
    \A j \in DOMAIN rows : \A r \in DOMAIN params.related_columns :
      LET present == {c \in Mapped :
                        \E k \in params.related_columns[r] : k.name = ColumnAt(c).column_name}
      IN  ~(/\ \E c \in present : Cleaned(j)[c] = ""
            /\ \E c \in present : Cleaned(j)[c] # "")

(***************************************************************************)
(* C7: for every converted cell that is empty after whitespace handling    *)
(* the column's empty policy decides before any type conversion: NotOK     *)
(* fails decode with an error citing the line number and the column name,  *)
(* ToNone yields null, OK keeps the empty string, and any other policy     *)
(* value is substituted as a literal default and converted by the type     *)
(* rule of the column.                                                     *)
(***************************************************************************)
C7_EmptyPolicy ==
  /\ Running =>
       \A i \in DOMAIN rows : \A c \in Mapped :
         (newdests[i] /\ Cleaned(i)[c] = "") =>
           LET col == ColumnAt(c)
               rec == result[RecordOf(i)]
           IN  /\ col.empty # Empty.NotOK
               /\ (/\ params.make_objects # "False"
                   /\ col.column_name \notin array_column_names(params)
                   /\ c = column_name_to_index(params, headerline, col.column_name))
                  => rec.fields[col.destination_name] =
                       IF col.empty = Empty.ToNone THEN PyNone
                       ELSE IF col.empty = Empty.OK THEN PyStr("")
                       ELSE type_conversion(col, col.empty.d, 0).value
  /\ (pc = "raised" /\ error.rule = "is empty") =>
       /\ error.type = "CSVException"
       /\ error.line = Len(rows) + 1
       /\ \E c \in Mapped :
            /\ error.names = << ColumnAt(c).column_name >>
            /\ Cleaned(Len(rows))[c] = ""
            /\ ColumnAt(c).empty = Empty.NotOK

\* a row of empty cells gave the kept empty string and the converted defaults
C7_Witness ==
  /\ Running /\ params.caller = "policy" /\ headerline = PolicyHeaderLine
  /\ \E i \in DOMAIN rows :
       /\ newdests[i]
       /\ \A c \in 2..5 : Cleaned(i)[c] = ""
       /\ result[RecordOf(i)].fields["note"] = PyStr("")
       /\ result[RecordOf(i)].fields["count"] = PyInt("7")
       /\ result[RecordOf(i)].fields["flag"] = PyBool(FALSE)

(***************************************************************************)
(* C8: decode is all-or-nothing: when a row violates a format, validation  *)
(* or continuation rule no Record list is returned, not even the Records   *)
(* of the rows before it; a Record list is returned only when every row    *)
(* was accepted.                                                           *)
(***************************************************************************)
C8_AllOrNothing ==
  /\ pc = "raised" => returned = << >>
  /\ returned # << >> =>
       /\ pc = "returned" /\ error = NoError
       /\ returned[1] = result
       /\ Len(newdests) = Len(rows)
       /\ Len(result) = RecordOf(Len(rows))
       /\ \A j \in DOMAIN rows :
            /\ Len(rows[j]) = Len(headerline)
            /\ HasIdentifier => \A i \in 1..(j - 2) : Ident(i) = Ident(j) => Ident(j - 1) = Ident(j)
            /\ \A c \in Mapped :
                 (ColumnAt(c).column_type = "bool" /\ Cleaned(j)[c] # "")
                   => lower(Cleaned(j)[c]) \in {"1", "true", "0", "false"}

\* a decode that raised on its third row, after two Records, returned nothing
C8_Witness ==
  /\ pc = "raised" /\ Len(rows) = 3 /\ Len(result) >= 2 /\ returned = << >>

(***************************************************************************)
(* Vocabulary of the encode properties                                     *)
(***************************************************************************)
\* this step converted record number converted' of data
Converted == encode_pc = "convert" /\ converted' = converted + 1

\* the csv lines the step added: the primary line and the additional lines
NewLines == SubSeq(records', Len(records) + 1, Len(records'))

\* the schema-mapped physical columns that belong to no array group
ScalarColumns ==
  {c \in Mapped : ~ \E g \in DOMAIN params.array_groups :
                      in_array_group(params.array_groups[g], ColumnAt(c).column_name)}

\* the input row that started record k
FirstRow(k) == CHOOSE i \in DOMAIN rows : newdests[i] /\ RecordOf(i) = k

IsRepeating(key) ==
  key \in {"nameParts", "identifiers", "states", "roles"} \/ endswith(key, ".states")

\* the repeating groups of a record, in the order of its keys: the dotted
\* key and the elements
RECURSIVE RepeatingGroups(_, _)
RepeatingGroups(items, path) ==
  IF items = << >> THEN << >>
  ELSE LET key == path \o map_abbreviations(Head(items).k)
           value == Head(items).val
       IN  (IF IsRepeating(key) THEN << [key |-> key, elements |-> value.items] >>
            ELSE IF value.t = "dict" THEN RepeatingGroups(value.items, key \o ".")
            ELSE << >>)
           \o RepeatingGroups(Tail(items), path)

ElementKeys(key) ==
  IF key = "identifiers" THEN {"type", "value", "issuingBody"}
  ELSE IF key \in {"nameParts", "roles"} THEN {}
  ELSE {"validFrom", "validTo", "type"}

\* the columns of element j of a group
ElementColumns(key, j) ==
  IF key = "nameParts" THEN {"name" \o ToString(j)}
  ELSE IF key = "roles" THEN {"roles"}
  ELSE {key \o "." \o k : k \in ElementKeys(key)}

\* the line that holds element j of a group and the identifier, nothing else
ElementLine(key, element, j, id) ==
  [c \in ElementColumns(key, j) \cup {"externalId"} |->
     IF c = "externalId" THEN id
     ELSE IF key \in {"nameParts", "roles"} THEN convert_value(element)
     ELSE convert_value(dict_get(element.items, CHOOSE k \in ElementKeys(key) : key \o "." \o k = c))]

\* one line for each of the elements j.. of a group
RECURSIVE RestLines(_, _, _, _)
RestLines(key, elements, j, id) ==
  IF j > Len(elements) THEN << >>
  ELSE << ElementLine(key, elements[j], j, id) >> \o RestLines(key, elements, j + 1, id)

\* one additional line for every element after the first of every group
RECURSIVE AdditionalLines(_, _, _)
AdditionalLines(groups, id, name_parts_too) ==
  IF groups = << >> THEN << >>
  ELSE (IF Head(groups).key = "nameParts" /\ ~name_parts_too THEN << >>
        ELSE RestLines(Head(groups).key, Head(groups).elements, 2, id))
       \o AdditionalLines(Tail(groups), id, name_parts_too)

\* the first element of every group is in the primary line (of the last
\* group, should a dotted key occur twice)
FirstInPrimary(groups, primary, id) ==
  \A g \in DOMAIN groups :
    (/\ Len(groups[g].elements) > 0
     /\ ~ \E h \in DOMAIN groups : h > g /\ groups[h].key = groups[g].key) =>
      \A c \in ElementColumns(groups[g].key, 1) \cup {"externalId"} :
        /\ c \in DOMAIN primary
        /\ primary[c] = ElementLine(groups[g].key, groups[g].elements[1], 1, id)[c]

\* every name part i is in column name<i> of the primary line
NamePartsInPrimary(groups, primary) ==
  \A g \in DOMAIN groups :
    groups[g].key = "nameParts" =>
      \A j \in DOMAIN groups[g].elements :
        /\ ("name" \o ToString(j)) \in DOMAIN primary
        /\ primary["name" \o ToString(j)] = convert_value(groups[g].elements[j])

\* the text of the externalId of record k of data
ExternalId(k) == dict_get(data[k].items, "externalId").v

(***************************************************************************)
(* C9: round trip.  When rows decoded with the domain schema are turned    *)
(* into nested form (to_dict) and encoded back, the primary line of every  *)
(* record carries, in every non-repeating scalar column of the file,       *)
(* exactly the text of the cell of the row that started the record.        *)
(***************************************************************************)
C9_RoundTrip ==
  [][(pc = "returned" /\ Converted) =>
       \A c \in ScalarColumns :
         /\ ColumnAt(c).column_name \in DOMAIN NewLines[1]
         /\ NewLines[1][ColumnAt(c).column_name] = rows[FirstRow(converted')][c]]_vars

C11_EncodeNeverRaises == [][encode_pc = "convert" => encode_pc' # "raised"]_vars

\* the leaves of a record outside its repeating groups: dotted path and
\* value of every item that is neither a dict nor a list
RECURSIVE Leaves(_, _)
Leaves(items, path) ==
  IF items = << >> THEN {}
  ELSE LET key == path \o map_abbreviations(Head(items).k)
           value == Head(items).val
       IN  (IF IsRepeating(key) \/ value.t = "list" THEN {}
            ELSE IF value.t = "dict" THEN Leaves(value.items, key \o ".")
            ELSE {[path |-> key, value |-> value]})
           \cup Leaves(Tail(items), path)

\* the paths of the leaves of record k that are no schema column; nulls:
\* are the leaves that hold null among them
UnknownLeaves(k, nulls) ==
  {l.path : l \in {m \in Leaves(data[k].items, "") :
                     /\ ~ \E i \in DOMAIN get_csv_header : get_csv_header[i].column_name = m.path
                     /\ (nulls \/ m.value.t # "None")}}

\* the warnings name every unknown key once, in sorted order
ReportedSorted ==
  /\ {warnings[i] : i \in DOMAIN warnings} = unknown_keys
  /\ \A i, j \in DOMAIN warnings : i < j => str_lt(warnings[i], warnings[j])

HeaderNamesKnown ==
  \A i \in DOMAIN headerline :
    \E c \in DOMAIN params.header : params.header[c].column_name = strip(headerline[i])

\* every schema column that is not optional is on the header line
RequiredPresent ==
  \A c \in DOMAIN params.header :
    ~params.header[c].optional =>
      \E i \in DOMAIN headerline : strip(headerline[i]) = params.header[c].column_name

(***************************************************************************)
(* C13: decode goes on to the data rows only if every name of the header   *)
(* line, trimmed, is a schema column or ignore_unknown_columns is set, and *)
(* every schema column that is not optional is on the header line; with    *)
(* any other header line decode has failed, and no data row was processed. *)
(***************************************************************************)
C13_HeaderChecked ==
  /\ pc \in {"rows", "returned"} =>
       (params.ignore_unknown_columns \/ HeaderNamesKnown) /\ RequiredPresent
  /\ (headerline # << >> /\ ~((params.ignore_unknown_columns \/ HeaderNamesKnown) /\ RequiredPresent)) =>
       /\ pc = "raised"
       /\ error.type = "CSVException"
       /\ error.rule \in {"Unknown column", "Required column is missing"}
       /\ rows = << >>
       /\ result = << >>
       /\ returned = << >>

\* a header line of known names that lacks a required column was rejected,
\* although unknown names would have been ignored
C13_Witness ==
  /\ pc = "raised"
  /\ headerline # << >>
  /\ HeaderNamesKnown
  /\ ~RequiredPresent
  /\ error.rule = "Required column is missing"
  /\ rows = << >>

(***************************************************************************)
(* C14: a data row whose field count differs from the header line's makes  *)
(* decode fail with the error that names the expected and the found count  *)
(* and the line of the row (the header line is line 1, the k-th data row   *)
(* line k+1); nothing of the row reaches the records.                      *)
(***************************************************************************)
C14_FieldCount ==
  [][(/\ pc = "rows"
      /\ Len(rows') = Len(rows) + 1
      /\ Len(rows'[Len(rows')]) # Len(headerline)) =>
       /\ pc' = "raised"
       /\ error' = CSVException("Expected columns", Len(rows') + 1,
                                << ToString(Len(headerline)), ToString(Len(rows'[Len(rows')])) >>)
       /\ result' = result
       /\ newdests' = newdests
       /\ done_identifiers' = done_identifiers]_vars

\* the second data row had too many fields: the error names line 3, and
\* the record of the first row is all there is
C14_Witness ==
  /\ pc = "raised"
  /\ Len(rows) = 2
  /\ Len(rows[2]) > Len(headerline)
  /\ error.rule = "Expected columns"
  /\ error.line = 3
  /\ Len(result) = 1

\* the names of the schema columns
SchemaNames == {params.header[i].column_name : i \in DOMAIN params.header}

\* the schema of the call is inconsistent in one of the ways of C15
InconsistentSchema ==
  \/ \E i, j \in DOMAIN params.header :
       i # j /\ params.header[i].column_name = params.header[j].column_name
  \/ \E i \in DOMAIN params.header :
       params.header[i].empty = Empty.OK /\ params.header[i].column_type # "str"
  \/ \E g \in DOMAIN params.array_groups :
       IF params.array_groups[g].has_prefix
       THEN ~ \E n \in SchemaNames : startswith(n, params.array_groups[g].prefix)
       ELSE params.array_groups[g].name \notin SchemaNames
  \/ \E r \in DOMAIN params.related_columns :
       \E c \in params.related_columns[r] : c.name \notin SchemaNames
  \/ ~params.identifier_column.none /\ params.identifier_column.v \notin SchemaNames

(***************************************************************************)
(* C15: a call whose schema has two columns of one name, an Empty.OK       *)
(* column that is no string column, an array group whose prefix (or, for a *)
(* group without prefix, whose name) matches no schema column, or a        *)
(* related or identifier column that is no schema column never gets past   *)
(* the parameter checks: it is rejected before the header line or any row  *)
(* is read.                                                                *)
(***************************************************************************)
C15_SchemaRejected ==
  InconsistentSchema =>
    /\ pc \in {"check", "raised"}
    /\ pc = "raised" =>
         error.rule \in {"Duplicate column name", "Empty.OK is only allowed for string columns",
                         "Unknown related column", "Unknown identifier column",
                         "Unknown array column prefix", "Unknown array column"}
    /\ headerline = << >>
    /\ rows = << >>
    /\ returned = << >>

\* the schema whose array group without prefix names no column was rejected
C15_Witness ==
  /\ pc = "raised"
  /\ \E g \in DOMAIN params.array_groups :
       ~params.array_groups[g].has_prefix /\ params.array_groups[g].name \notin SchemaNames
  /\ error = CSVException("Unknown array column", 0, << "labels" >>)
  /\ headerline = << >>

\* the texts a boolean cell may hold, compared case-insensitively
TrueTexts ==
  {"1"} \cup {a \o b \o c \o d : a \in {"t", "T"}, b \in {"r", "R"}, c \in {"u", "U"}, d \in {"e", "E"}}

FalseTexts ==
  {"0"} \cup {a \o b \o c \o d \o e : a \in {"f", "F"}, b \in {"a", "A"}, c \in {"l", "L"},
                                      d \in {"s", "S"}, e \in {"e", "E"}}

\* the member names of an enumeration, in the order of their declaration
MemberNames(type) ==
  CASE type = "StatesType" -> << "INACTIVE", "ACTIVE" >>
    [] type = "ClassificationsType" -> << "NACE", "NAF", "NAICS", "SIC" >>
    [] type = "Roles" -> << "SUPPLIER", "CUSTOMER", "ONE_TIME_SUPPLIER", "ONE_TIME_CUSTOMER" >>
    [] type = "AddressType" ->
         << "LegalAndSiteMainAddress", "LegalAddress", "SiteMainAddress", "AdditionalAddress" >>
    [] type = "DeliveryServiceType" -> << "PO_BOX", "PRIVATE_BAG", "BOITE_POSTALE" >>

RestrictedTypes ==
  {"bool", "country_codes", "StatesType", "ClassificationsType", "Roles", "AddressType",
   "DeliveryServiceType"}

\* the cell is a text the declared type accepts
Accepts(type, cell) ==
  CASE type = "bool" -> cell \in TrueTexts \cup FalseTexts
    [] type = "country_codes" -> cell \in country_codes
    [] OTHER -> \E m \in DOMAIN MemberNames(type) : MemberNames(type)[m] = cell

\* the value a cell of the declared type stands for
Meaning(type, cell) ==
  CASE type = "bool" -> PyBool(cell \in TrueTexts)
    [] type = "country_codes" -> PyStr(cell)
    [] OTHER -> PyEnum(type, cell)

(***************************************************************************)
(* C16: a non-empty cell of a boolean column is accepted exactly if it is  *)
(* "1"/"true" (true) or "0"/"false" (false) in any letter case, a cell of  *)
(* an enumeration column exactly if it is a member name in the case of its *)
(* declaration, a cell of a string-set column exactly if it is a member of *)
(* the set; the accepted cell is stored as the value it stands for, and    *)
(* any other cell fails decode with an error that cites the line and the   *)
(* column and, for an enumeration, lists the member names.                 *)
(***************************************************************************)
C16_TypedCells ==
  /\ Running =>
       \A i \in DOMAIN rows : \A c \in Mapped :
         LET col == ColumnAt(c)
             cell == Cleaned(i)[c]
         IN  (col.column_type \in RestrictedTypes /\ cell # "") =>
               /\ Accepts(col.column_type, cell)
               /\ (/\ newdests[i]
                   /\ params.make_objects # "False"
                   /\ col.column_name \notin array_column_names(params)
                   /\ c = column_name_to_index(params, headerline, col.column_name))
                  => result[RecordOf(i)].fields[col.destination_name] = Meaning(col.column_type, cell)
               /\ (/\ newdests[i]
                   /\ col.column_name = "roles" /\ "roles" \in array_column_names(params)
                   /\ c = column_name_to_index(params, headerline, col.column_name))
                  => \E e \in DOMAIN result[RecordOf(i)].lists["roles"] :
                       result[RecordOf(i)].lists["roles"][e] = Meaning(col.column_type, cell)
  /\ (pc = "raised" /\ error.rule \in {"should be '1/true' or '0/false'", "should be one of"}) =>
       /\ error.type = "CSVException"
       /\ error.line = Len(rows) + 1
       /\ \E c \in Mapped :
            LET col == ColumnAt(c)
                cell == Cleaned(Len(rows))[c]
            IN  /\ col.column_type \in RestrictedTypes
                /\ cell # ""
                /\ ~Accepts(col.column_type, cell)
                /\ \A b \in Mapped :
                     (b < c /\ ColumnAt(b).column_type \in RestrictedTypes /\ Cleaned(Len(rows))[b] # "")
                       => Accepts(ColumnAt(b).column_type, Cleaned(Len(rows))[b])
                /\ error.rule = IF col.column_type = "bool" THEN "should be '1/true' or '0/false'"
                                ELSE "should be one of"
                /\ error.names = IF col.column_type \in {"bool", "country_codes"}
                                 THEN << col.column_name >>
                                 ELSE << col.column_name >> \o MemberNames(col.column_type)

\* "TRUE" was stored as true, and a role written in lower case was rejected
\* with the member names
C16_Witness ==
  /\ pc = "raised" /\ headerline = DomainHeaderLine /\ Len(rows) = 2
  /\ Len(rows[1]) = 6 /\ Len(rows[2]) = 6 /\ Len(result) >= 1
  /\ rows[1][6] = "TRUE" /\ result[1].fields["isOwnCompanyData"] = PyBool(TRUE)
  /\ rows[2][5] = "supplier"
  /\ error = CSVException("should be one of", 3,
                          << "roles", "SUPPLIER", "CUSTOMER", "ONE_TIME_SUPPLIER", "ONE_TIME_CUSTOMER" >>)

\* s with its decimal point, if it has one, written as a comma
WithComma(s) ==
  IF \E i \in 1..Len(s) : Char(s, i) = "."
  THEN LET dot == CHOOSE i \in 1..Len(s) : Char(s, i) = "."
       IN  SubSeq(s, 1, dot - 1) \o "," \o SubSeq(s, dot + 1, Len(s))
  ELSE s

\* the text of a value at a leaf position
Stringified(value) ==
  CASE value.t = "None" -> ""
    [] value.t = "float" -> WithComma(value.v)
    [] value.t = "bool" -> (IF value.v = "True" THEN "true" ELSE "false")
    [] value.t \in {"dict", "list"} -> "internal error 2"
    [] OTHER -> value.v

(***************************************************************************)
(* C17: in the primary line of an encoded record every leaf at a schema    *)
(* column, every name part and every first role is written as text: null   *)
(* as the empty string, a float as its decimal text with "," for the       *)
(* point (decode reads that text back as the same float), a boolean as     *)
(* "true" or "false", any other scalar as its str() text; a container in   *)
(* the place of a name part or role is written as "internal error 2", a    *)
(* list at a key that is no repeating group as "internal error 1".         *)
(***************************************************************************)
C17_LeavesStringified ==
  [][Converted =>
       LET rec == data[converted']
           primary == NewLines[1]
           groups == RepeatingGroups(rec.items, "")
       IN  /\ \A l \in Leaves(rec.items, "") :
                l.path \in column_name_to_column =>
                  /\ l.path \in DOMAIN primary
                  /\ primary[l.path] = Stringified(l.value)
                  /\ l.value.t = "float" =>
                       FloatText(replace(primary[l.path], ",", ".")) = [ok |-> TRUE, v |-> l.value.v]
           /\ \A g \in DOMAIN groups :
                /\ groups[g].key = "nameParts" =>
                     \A j \in DOMAIN groups[g].elements :
                       /\ ("name" \o ToString(j)) \in DOMAIN primary
                       /\ primary["name" \o ToString(j)] = Stringified(groups[g].elements[j])
                /\ (groups[g].key = "roles" /\ groups[g].elements # << >>) =>
                     /\ "roles" \in DOMAIN primary
                     /\ primary["roles"] = Stringified(groups[g].elements[1])
           /\ \A i \in DOMAIN rec.items :
                (rec.items[i].val.t = "list" /\ ~IsRepeating(rec.items[i].k)) =>
                  /\ rec.items[i].k \in DOMAIN primary
                  /\ primary[rec.items[i].k] = "internal error 1"]_vars

\* a record with a float, an integer, a null and a boolean leaf was encoded
C17_Witness ==
  /\ pc = "idle" /\ encode_pc \in {"convert", "returned"}
  /\ \E k \in DOMAIN records :
       /\ "address.physical.geographicCoordinates.altitude" \in DOMAIN records[k]
       /\ records[k]["address.physical.geographicCoordinates.longitude"] = "1,5"
       /\ records[k]["address.physical.geographicCoordinates.latitude"] = "0"
       /\ records[k]["address.physical.geographicCoordinates.altitude"] = ""
       /\ records[k]["isOwnCompanyData"] = "false"
  /\ \E k \in DOMAIN records :
       /\ {"name1", "tags"} \subseteq DOMAIN records[k]
       /\ records[k]["name1"] = "internal error 2"
       /\ records[k]["tags"] = "internal error 1"

\* the class of failure a rule belongs to; "" for an exception that is no
\* decode error
FailureClass(rule) ==
  CASE rule \in {"Duplicate column name", "Empty.OK is only allowed for string columns",
                 "Unknown related column", "Unknown identifier column",
                 "Unknown array column prefix", "Unknown array column"} -> "SchemaError"
    [] rule \in {"Unknown column", "Required column is missing", "Expected columns"} -> "FormatError"
    [] rule \in {"is empty", "should be an integer", "should be a float", "should be a datetime",
                 "should be one of", "should be '1/true' or '0/false'",
                 "Either all or none of the related columns must be set"} -> "ValidationError"
    [] rule \in {"Duplicate identifier", "not allowed in a continuation line",
                 "Only one of the array groups must be set",
                 "One of the array columns must be set"} -> "ContinuationError"
    [] OTHER -> ""

(***************************************************************************)
(* C18: a failed decode ends in one error whose type tells its class: the  *)
(* error belongs to one of the four classes, its type differs from the     *)
(* type of the error of every inconsistent schema unless it is a schema    *)
(* error itself, and an error on a data row carries the 1-based line       *)
(* number of that row.                                                     *)
(***************************************************************************)
C18_ErrorTypeTellsClass ==
  pc = "raised" =>
    /\ FailureClass(error.rule) # ""
    /\ \A p \in ParameterSets :
         (/\ check_parameters(p).type # ""
          /\ FailureClass(check_parameters(p).rule) = "SchemaError"
          /\ FailureClass(error.rule) # "SchemaError")
         => error.type # check_parameters(p).type
    /\ rows # << >> => error.line = Len(rows) + 1

(***************************************************************************)
(* C19: encoding a record appends its lines to the lines of the records    *)
(* before it: the primary line first, directly followed by the additional  *)
(* lines of the record, every one of them with the record's identifier in  *)
(* the identifier column.  As long as the records encoded so far have      *)
(* pairwise distinct identifiers, the lines of one identifier are          *)
(* contiguous and the identifiers appear in the order of the records.      *)
(***************************************************************************)
C19_RecordLinesTogether ==
  [][Converted =>
       /\ Len(records') > Len(records)
       /\ SubSeq(records', 1, Len(records)) = records
       /\ \A i \in DOMAIN NewLines :
            /\ "externalId" \in DOMAIN NewLines[i]
            /\ NewLines[i]["externalId"] = ExternalId(converted')
       /\ Tail(NewLines) = AdditionalLines(RepeatingGroups(data[converted'].items, ""),
                                           ExternalId(converted'), FALSE)
       /\ (\A a, b \in 1..converted' : a # b => ExternalId(a) # ExternalId(b)) =>
            /\ \A i, j, k \in DOMAIN records' :
                 (i < j /\ j < k /\ records'[i]["externalId"] = records'[k]["externalId"])
                   => records'[j]["externalId"] = records'[i]["externalId"]
            /\ FirstSeen([i \in DOMAIN records' |-> records'[i]["externalId"]])
                 = [k \in 1..converted' |-> ExternalId(k)]]_vars

\* two records with additional lines were encoded: three lines of A1, then
\* three lines of B1
C19_Witness ==
  /\ pc = "idle" /\ encode_pc = "returned"
  /\ Len(data) = 2 /\ Len(records) = 6
  /\ \A i \in 1..3 : records[i]["externalId"] = "A1" /\ records[i + 3]["externalId"] = "B1"
  /\ "name1" \in DOMAIN records[1] /\ "name1" \notin DOMAIN records[2]
  /\ "name1" \in DOMAIN records[4] /\ "name1" \notin DOMAIN records[5]

\* s without its leading whitespace
RECURSIVE TrimLeft(_)
TrimLeft(s) == IF s # "" /\ Char(s, 1) \in Whitespace THEN TrimLeft(SubSeq(s, 2, Len(s))) ELSE s

\* s without its trailing whitespace
RECURSIVE TrimRight(_)
TrimRight(s) ==
  IF s # "" /\ Char(s, Len(s)) \in Whitespace THEN TrimRight(SubSeq(s, 1, Len(s) - 1)) ELSE s

\* a trimmed text with every run of whitespace replaced by one space
RECURSIVE Squeeze(_)
Squeeze(s) ==
  IF s = "" THEN ""
  ELSE IF Char(s, 1) \notin Whitespace THEN Char(s, 1) \o Squeeze(SubSeq(s, 2, Len(s)))
  ELSE " " \o Squeeze(TrimLeft(s))

\* the text of a cell under a whitespace policy
PolicyText(policy, s) ==
  IF policy = SpaceHandling.Strip THEN TrimRight(TrimLeft(s))
  ELSE IF policy = SpaceHandling.Collapse THEN Squeeze(TrimRight(TrimLeft(s)))
  ELSE s

(***************************************************************************)
(* C20: a row of the right length is processed as the row whose            *)
(* schema-mapped cells were replaced by their text under the whitespace    *)
(* policy (kept, trimmed, or trimmed with inner runs collapsed to one      *)
(* space) and whose other cells were left alone would be processed with    *)
(* no policy at all: the related-column check, the identifier comparison,  *)
(* the empty-cell policy and the conversion see the replaced text only.    *)
(* Hence, under trim or collapse, a row whose identifier differs from the  *)
(* identifier of the row before it in surrounding whitespace only belongs  *)
(* to the same Record, and a cell of whitespace counts as empty.           *)
(***************************************************************************)
C20_WhitespacePolicyFirst ==
  [][(/\ pc = "rows"
      /\ Len(rows') = Len(rows) + 1
      /\ Len(rows'[Len(rows')]) = Len(headerline)) =>
       LET raw == rows'[Len(rows')]
           clean == [i \in DOMAIN raw |->
                       IF i \in Mapped THEN PolicyText(params.space_handling, raw[i]) ELSE raw[i]]
       IN  /\ \E r \in {process_row([params EXCEPT !.space_handling = SpaceHandling.Keep],
                                    headerline, clean, line + 1, result,
                                    previous_identifier, done_identifiers)} :
                /\ error' = r.err
                /\ result' = r.result
                /\ previous_identifier' = r.previous_identifier
                /\ done_identifiers' = r.done_identifiers
                /\ pc' = IF r.err.type = "" THEN "rows" ELSE "raised"
           /\ (/\ HasIdentifier
               /\ params.space_handling # SpaceHandling.Keep
               /\ rows # << >>
               /\ pc' = "rows"
               /\ TrimRight(TrimLeft(raw[identifier_column_index]))
                    = TrimRight(TrimLeft(rows[Len(rows)][identifier_column_index])))
              => /\ newdests' = Append(newdests, FALSE)
                 /\ Len(result') = Len(result)
           /\ (/\ params.space_handling # SpaceHandling.Keep
               /\ pc' = "rows"
               /\ newdests'[Len(newdests')]) =>
                \A c \in Mapped :
                  (raw[c] # "" /\ TrimLeft(raw[c]) = "") =>
                    /\ ColumnAt(c).empty # Empty.NotOK
                    /\ \/ ColumnAt(c).column_name \in array_column_names(params)
                         \/ params.make_objects = "False"
                         \/ c # column_name_to_index(params, headerline, ColumnAt(c).column_name)
                         \/ result'[Len(result')].fields[ColumnAt(c).destination_name]
                              = convert_cell(ColumnAt(c), "", line').value]_vars

\* under trim or collapse the row of " A1" with a name of one space went to
\* the Record of "A1" as a continuation row
C20_Witness ==
  /\ pc = "rows" /\ params.space_handling # SpaceHandling.Keep
  /\ headerline = DomainHeaderLine
  /\ Len(rows) = 2 /\ Len(rows[1]) = 6 /\ Len(rows[2]) = 6
  /\ rows[1][1] = "A1" /\ rows[2][1] = " A1" /\ rows[2][2] = " "
  /\ newdests = << TRUE, FALSE >>
  /\ Len(result) = 1
  /\ Len(result[1].lists["identifiers"]) = 2

(***************************************************************************)
(* Concurrent invocations: a decode (read_header_csv_with_reader, called   *)
(* with its own reader) and an encode (convert_json.convert, called with   *)
(* its own data) run in two threads; every step of either is a step of the *)
(* system.  Both read the definitions of file_format; the locals of the    *)
(* two calls are the decode and the encode variables.                      *)
(***************************************************************************)
InitConcurrent ==
  /\ params = get_external_ids
  /\ pc = "check"
  /\ data \in {d \in JsonData(MaxRecords) : Len(d) = 1 /\ Len(d[1].items) > 6}
  /\ encode_pc = "convert"
  /\ headerline = << >>
  /\ rows = << >>
  /\ line = 1
  /\ result = << >>
  /\ previous_identifier = << >>
  /\ done_identifiers = {}
  /\ newdests = << >>
  /\ error = NoError
  /\ returned = << >>
  /\ converted = 0
  /\ records = << >>
  /\ unknown_keys = {}
  /\ warnings = << >>
  /\ encode_error = NoError
  /\ ServiceIdle

NextConcurrent ==
  \/ CheckParameters \/ ReadHeader \/ EmptyFile \/ ProcessRow \/ Return
  \/ ConvertRecord \/ ConvertReturn

SpecConcurrent == InitConcurrent /\ [][NextConcurrent]_vars

\* the locals of a decode after row k, from its locals before the row
RowAlone(before, k) ==
  process_row(params, headerline, rows[k], k + 1, before.result,
              before.previous_identifier, before.done_identifiers)

\* the locals of a decode that ran alone over the first k rows read
RECURSIVE DecodedAlone(_)
DecodedAlone(k) ==
  IF k = 0 THEN row_locals(NoError, << >>, << >>, {}, TRUE)
  ELSE RowAlone(DecodedAlone(k - 1), k)

\* the locals of an encode after record k, from its locals before and the
\* conversion of the record
RecordAlone(before, E) ==
  [records |-> IF E.err = NoError THEN (before.records \o << E.dest >>) \o E.additional_lines
               ELSE before.records,
   unknown_keys |-> E.unknown_keys]

\* the locals of an encode that ran alone over the first k records
RECURSIVE EncodedAlone(_)
EncodedAlone(k) ==
  IF k = 0 THEN [records |-> << >>, unknown_keys |-> {}]
  ELSE RecordAlone(EncodedAlone(k - 1),
                   convert_input_record(data[k], EncodedAlone(k - 1).unknown_keys))

\* a decode that has ended and an encode that has ended hold what calls that
\* ran alone hold
EndsAsAlone ==
  /\ (pc \in {"returned", "raised"} /\ rows # << >>) =>
       \E alone \in {DecodedAlone(Len(rows))} :
         /\ result = alone.result
         /\ error = alone.err
         /\ previous_identifier = alone.previous_identifier
         /\ done_identifiers = alone.done_identifiers
         /\ pc = "returned" => returned = << alone.result >>
  /\ (encode_pc \in {"returned", "raised"} /\ converted > 0) =>
       \E alone \in {EncodedAlone(converted)} :
         /\ records = alone.records
         /\ unknown_keys = alone.unknown_keys

InitGroups ==
  /\ params = group_decode
  /\ pc = "check"
  /\ data = << >>
  /\ encode_pc = "idle"
  /\ headerline = << >>
  /\ rows = << >>
  /\ line = 1
  /\ result = << >>
  /\ previous_identifier = << >>
  /\ done_identifiers = {}
  /\ newdests = << >>
  /\ error = NoError
  /\ returned = << >>
  /\ converted = 0
  /\ records = << >>
  /\ unknown_keys = {}
  /\ warnings = << >>
  /\ encode_error = NoError
  /\ ServiceIdle

NextGroups == CheckParameters \/ ReadHeader \/ EmptyFile \/ ProcessRow \/ Return

SpecGroups == InitGroups /\ [][NextGroups]_vars

\* the physical columns of array group ag_index on the header line
GroupColumns(p, hl, ag_index) ==
  SortedSeq({i \in mapped_columns(p, hl) :
               /\ column_index_to_column(p, hl, i).column_name \in array_column_names(p)
               /\ array_column_name_to_array_index(p, column_index_to_column(p, hl, i).column_name)
                    = ag_index})

\* what the cells of a group give on a row that starts a record: the error
\* of the first cell that breaks its rule, or the elements added to the list
OnNewRecord(p, hl, row, line_nr, ag_index) ==
  append_array_groups(p, convert_columns(p, hl, GroupColumns(p, hl, ag_index), row, line_nr,
                                         new_record_state(p)), 1)

\* the row just read is a continuation row that was accepted
ContinuationAccepted ==
  /\ pc = "rows" /\ pc' = "rows"
  /\ Len(rows') = Len(rows) + 1
  /\ Len(newdests') = Len(newdests) + 1
  /\ ~newdests'[Len(newdests')]

\* what an accepted continuation row appended is what its cells give on a
\* row that starts a record
SameAsOnNewRecord(p, hl, row, line_nr, before, after, ag_index) ==
  \E N \in {OnNewRecord(p, hl, row, line_nr, ag_index)} :
    /\ N.err = NoError
    /\ after.lists[p.array_groups[ag_index].name]
         = before.lists[p.array_groups[ag_index].name]
             \o N.dest.lists[p.array_groups[ag_index].name]

(***************************************************************************)
(* C22: the element that an accepted continuation row adds to its active   *)
(* array group is the element that the same group cells give on a row that *)
(* starts a record: every column of the group converted under its empty    *)
(* policy and type rule.                                                   *)
(***************************************************************************)
C22_ContinuationElementAsNewRecord ==
  [][ContinuationAccepted =>
       SameAsOnNewRecord(params, headerline,
                         space_handled(params, headerline, rows'[Len(rows')]), line',
                         result[Len(result)], result'[Len(result')],
                         continuation_check(params, headerline,
                                            space_handled(params, headerline, rows'[Len(rows')]),
                                            line').group)]_vars

(***************************************************************************)
(* C23: every key of every line that encode has built, primary or          *)
(* additional, is one of the header names that encode returns with the     *)
(* lines, so that the lines can be written against that header.            *)
(***************************************************************************)
C23_KeysInHeader ==
  \A i \in DOMAIN records :
    DOMAIN records[i] \subseteq {get_csv_header[c].column_name : c \in DOMAIN get_csv_header}

(***************************************************************************)
(* The service: app.py, job.py, processing.py                              *)
(***************************************************************************)
\* processing.py line 40
CHUNK_SIZE == 100

\* processing.py line 234: the number of records after which download_all
\* gives up
MAX_TOTAL == 1000000

\* the non-empty pages a remote stage holds at most, and the progress
\* requests a client sends at most
MaxPages == 3
MaxPolls == 2

\* html.escape( s ) with quote=True, on the characters lo..hi of s
RECURSIVE escape_range(_, _, _)
escape_range(s, lo, hi) ==
  IF lo > hi THEN ""
  ELSE IF lo < hi
  THEN CHOOSE t \in {escape_range(s, lo, mid) \o escape_range(s, mid + 1, hi) :
                        mid \in {(lo + hi) \div 2}} : TRUE
  ELSE IF Char(s, lo) = "&" THEN "&amp;"
  ELSE IF Char(s, lo) = "<" THEN "&lt;"
  ELSE IF Char(s, lo) = ">" THEN "&gt;"
  ELSE IF Char(s, lo) = "\"" THEN "&quot;"
  ELSE IF Char(s, lo) = "'" THEN "&#x27;"
  ELSE Char(s, lo)

escape(s) == escape_range(s, 1, Len(s))

\* str( ex ) of the exceptions that leave read_header_csv_with_reader
str_exception(err) ==
  LET at == "Line " \o ToString(err.line) \o ": " IN
  IF err.type # "CSVException" THEN ""
  ELSE IF err.rule = "Unknown array column prefix"
  THEN "Unknown array column prefix '" \o err.names[1] \o "' in csv file"
  ELSE IF err.rule = "Required column is missing"
  THEN "Required column '" \o err.names[1] \o "' is missing in csv file"
  ELSE IF err.rule = "Expected columns"
  THEN at \o "Expected " \o err.names[1] \o " columns, but found " \o err.names[2]
  ELSE IF err.rule = "is empty"
  THEN at \o "Column '" \o err.names[1] \o "' is empty"
  ELSE IF err.rule = "Duplicate identifier"
  THEN at \o "Duplicate identifier '" \o err.names[1]
          \o "' (all lines regarding an identifier must be consecutive.)"
  ELSE IF err.rule = "not allowed in a continuation line"
  THEN at \o "Setting column '" \o err.names[1] \o "' is not allowed in a continuation line"
  ELSE IF err.rule = "Only one of the array groups must be set"
  THEN at \o "Only one of the array groups " \o join(", ", err.names) \o " must be set"
  ELSE IF err.rule = "One of the array columns must be set"
  THEN at \o "One of the array columns " \o join(", ", err.names) \o " must be set"
  ELSE err.rule

\* csv_tools.py lines 262-479: the loop over the rows from row k on
RECURSIVE read_rows(_, _, _, _, _)
read_rows(p, hl, rows_, k, before) ==
  IF before.err # NoError \/ k > Len(rows_) THEN before
  ELSE read_rows(p, hl, rows_, k + 1,
                 process_row(p, hl, rows_[k], k + 1, before.result,
                             before.previous_identifier, before.done_identifiers))

\* read_header_csv_with_reader on the lines of a file: the exception that
\* leaves it or the result it returns
read_header_csv_with_reader(p, lines) ==
  IF check_parameters(p) # NoError THEN [err |-> check_parameters(p), result |-> << >>]
  ELSE IF lines = << >> THEN [err |-> Raise("StopIteration", "next", 0, << >>), result |-> << >>]
  ELSE IF read_header(p, Head(lines)) # NoError
  THEN [err |-> read_header(p, Head(lines)), result |-> << >>]
  ELSE LET r == read_rows(p, Head(lines), Tail(lines), 1,
                          row_locals(NoError, << >>, << >>, {}, TRUE))
       IN  [err |-> r.err, result |-> r.result]

\* the one job of the model
JobUuid == "u1"

\* the record that the pages of a stage repeat: the output stage holds a
\* business partner with ten name parts
StageRecord(what) ==
  CHOOSE r \in JsonRecords :
    /\ "externalId" \in dict_keys(r.items)
    /\ dict_get(r.items, "externalId").v = IF what = "input" THEN "A1" ELSE "D1"

\* lines 244-246: the exception of DictWriter.writerows on the lines E of
\* convert_json.convert, or the exception that left convert
writerows(E) ==
  LET bad == UNION {DOMAIN l : l \in {E.dest} \cup {E.additional_lines[i] : i \in DOMAIN E.additional_lines}}
               \ {get_csv_header[c].column_name : c \in DOMAIN get_csv_header}
  IN  IF E.err # NoError THEN [type |-> E.err.type, msg |-> "'" \o E.err.names[1] \o "'"]
      ELSE IF bad # {}
      THEN [type |-> "ValueError",
            msg |-> "dict contains fields not in fieldnames: '" \o (CHOOSE k \in bad : TRUE) \o "'"]
      ELSE NoException

\* lines 242-246 on a download of records like record
write_csv(record) == writerows(convert_input_record(record, {}))

\* an uploaded file: has its first line a field separator, is it valid
\* UTF-8, and the lines the csv reader delivers; what is the stage of a
\* download. The outcomes of the conversions of the input are kept with it:
\* decoded is what decoding the lines gives, csv_error the exception that
\* writing the stage's records as csv raises
File(sep, utf8, lines, what, decoded, csv_error) ==
  [sep |-> sep, utf8 |-> utf8, lines |-> lines, what |-> what, decoded |-> decoded,
   csv_error |-> csv_error]

\* the exception of a decode as run_job sees it
AsException(err) == [type |-> err.type, msg |-> str_exception(err)]

NotDecoded == [ex |-> NoException, values |-> << >>]

\* processing.py lines 90-91: convert_csv.convert and to_dict on the lines
\* of an upload
record_dicts_of(d) ==
  IF d.err # NoError THEN [ex |-> AsException(d.err), values |-> << >>]
  ELSE IF \E i \in DOMAIN d.result : to_dict_error(d.result[i]) # NoError
  THEN [ex |-> [type |-> "AttributeError", msg |-> "to_dict"], values |-> << >>]
  ELSE [ex |-> NoException, values |-> [i \in DOMAIN d.result |-> to_dict(d.result[i])]]

\* sharing_state_csv.get_external_ids on the lines of a file
external_ids_of(d) ==
  IF d.err # NoError THEN [ex |-> AsException(d.err), values |-> << >>]
  ELSE [ex |-> NoException, values |-> [i \in DOMAIN d.result |-> d.result[i].items[1].v]]

SharingRows == { << "A1", "x" >>, << "B1", "" >>, << "", "x" >> }

Files(kind) ==
  IF kind = "upload"
  THEN { File(FALSE, TRUE, << << "externalId" >> >>, "", NotDecoded, NoException),
         File(TRUE, FALSE, << >>, "", NotDecoded, NoException) }
       \cup { File(TRUE, TRUE, lines, "", d, NoException) :
                 lines \in {<< DomainHeaderLine, << "A1", "Acme", "", "", "SUPPLIER", "true" >> >>},
                 d \in {record_dicts_of(read_header_csv_with_reader(convert_csv_convert,
                           << DomainHeaderLine, << "A1", "Acme", "", "", "SUPPLIER", "true" >> >>))} }
  ELSE IF kind = "sharing-state"
  THEN { File(FALSE, TRUE, << << "externalId" >> >>, "", NotDecoded, NoException),
         File(TRUE, FALSE, << >>, "", NotDecoded, NoException) }
       \cup { File(TRUE, TRUE, f[1], "", f[2], NoException) :
                 f \in { << lines, external_ids_of(read_header_csv_with_reader(get_external_ids, lines)) >> :
                           lines \in {<< << "other", "id" >> >>}
                             \cup {<< << "externalId", "other" >> >> \o rows_ :
                                     rows_ \in {<< >>} \cup {<< r >> : r \in SharingRows}
                                       \cup {<< r1, r2 >> : r1 \in SharingRows, r2 \in SharingRows}}
                             \cup {<< << "externalId", "other" >>,
                                      << "A1", "x" >>, << "B1", "" >>, << "A1", "x" >> >>,
                                   << << "externalId", "externalId" >>,
                                      << "A1", "B1" >>, << "A1", "C1" >> >>} } }
  ELSE IF kind = "download-all-input"
  THEN { File(TRUE, TRUE, << >>, "input", NotDecoded, ex) : ex \in {write_csv(StageRecord("input"))} }
  ELSE { File(TRUE, TRUE, << >>, "output", NotDecoded, ex) : ex \in {write_csv(StageRecord("output"))} }

\* app.py lines 186-202: the job name is the file name, which ends with the
\* uuid and so never with the extension .csv
job_name(kind, file) ==
  IF file.what = "" THEN "t_" \o kind \o "_f.csv_" \o JobUuid
  ELSE "t_" \o kind \o "_" \o JobUuid

\* Job.__init__; result << >> is None
Job(uuid, name) ==
  [uuid |-> uuid, name |-> name, status |-> << >>, done |-> FALSE, result |-> << >>]

\* app.py lines 75-135 with make_job: the job is made and its thread started
make_job ==
  /\ jobs = NoJobs
  /\ \E kind \in {"upload", "sharing-state", "download-all-input", "download-all-output"} :
       \E file \in Files(kind) :
         /\ jobs' = (JobUuid :> Job(JobUuid, job_name(kind, file)))
         /\ worker' = [NoWorker EXCEPT
                         !.func = IF kind = "upload" THEN "upload_file"
                                  ELSE IF kind = "sharing-state" THEN "get_sharing_state"
                                  ELSE "download_all",
                         !.pc = "start", !.file = file]
  /\ UNCHANGED << client, decode_vars, encode_vars >>

\* the worker appends entries to job.status and goes on as w
Appends(entries, w) ==
  /\ jobs' = [jobs EXCEPT ![JobUuid].status = @ \o entries]
  /\ worker' = w

\* the function is left by an exception
Raised(type, msg) == [worker EXCEPT !.pc = "raised", !.ex = [type |-> type, msg |-> msg]]

\* _get_reader (lines 282-300): the exception it raises, if any
_get_reader(file) ==
  IF ~file.sep THEN [type |-> "CSVException", msg |-> "Field separator not found"]
  ELSE IF ~file.utf8
  THEN [type |-> "UnicodeDecodeError",
        msg |-> "'utf-8' codec can't decode byte 0xff in position 0: invalid start byte"]
  ELSE NoException

\* raise_for_status of a response with an error status
HTTPError(url) == [type |-> "HTTPError", msg |-> "500 Server Error: Internal Server Error for url: " \o url]

\* the first CHUNK_SIZE elements and the rest
chunk_of(seq) == SubSeq(seq, 1, Min({CHUNK_SIZE, Len(seq)}))
rest_of(seq) == SubSeq(seq, Min({CHUNK_SIZE, Len(seq)}) + 1, Len(seq))

\* processing.upload_file, one step: a step ends with the next write to the
\* job or with the end of the function
upload_file ==
  /\ worker.func = "upload_file"
  /\ worker.pc \in {"start", "convert", "token", "chunk"}
  /\ \E ok \in BOOLEAN :
       LET chunk == chunk_of(worker.record_dicts) IN
       IF worker.pc = "start"
       THEN Appends(<< "<li>Converting CSV...</li>" >>, [worker EXCEPT !.pc = "convert"])
       ELSE IF worker.pc = "convert"
       THEN IF _get_reader(worker.file) # NoException
            THEN Appends(<< >>, [worker EXCEPT !.pc = "raised", !.ex = _get_reader(worker.file)])
            ELSE IF worker.file.decoded.ex # NoException
            THEN Appends(<< >>, [worker EXCEPT !.pc = "raised", !.ex = worker.file.decoded.ex])
            ELSE Appends(<< "<li>Conversion successful</li>" >>,
                         [worker EXCEPT !.pc = "token",
                                        !.record_dicts = worker.file.decoded.values])
       ELSE IF worker.pc = "token"
       THEN IF ok THEN Appends(<< >>, [worker EXCEPT !.pc = "chunk"])
            ELSE Appends(<< >>, Raised("Exception", "Error getting access token"))
       ELSE IF worker.record_dicts = << >>
       THEN Appends(<< >>, [worker EXCEPT !.pc = "finish"])
       ELSE IF ~ok
       THEN Appends(<< >>, [Raised("HTTPError", HTTPError("input/business-partners").msg)
                              EXCEPT !.requests = Append(@, [sent |-> chunk, ok |-> FALSE])])
       ELSE Appends(<< "<li>Uploaded " \o ToString(worker.total + Len(chunk)) \o " records</li>" >>,
                    [worker EXCEPT !.record_dicts = rest_of(worker.record_dicts),
                                   !.total = @ + Len(chunk),
                                   !.requests = Append(@, [sent |-> chunk, ok |-> TRUE])])
  /\ UNCHANGED << client, decode_vars, encode_vars >>

\* the link to the result that the worker appends last
ResultLink == "<li><a href=\"/result/" \o JobUuid \o "\">Download CSV here</a></li>"

\* processing.get_sharing_state, one step
get_sharing_state ==
  /\ worker.func = "get_sharing_state"
  /\ worker.pc \in {"start", "ids", "early_done", "early_set", "token", "chunk", "link"}
  /\ \E ok \in BOOLEAN, found \in BOOLEAN :
       LET external_ids == worker.file.decoded.values
           chunk == chunk_of(worker.external_ids)
           content == IF found THEN chunk ELSE << >>
       IN
       IF worker.pc = "start"
       THEN Appends(<< "<li>Getting External IDs from CSV...</li>" >>,
                    [worker EXCEPT !.pc = "ids"])
       ELSE IF worker.pc = "ids"
       THEN IF _get_reader(worker.file) # NoException
            THEN Appends(<< >>, [worker EXCEPT !.pc = "raised", !.ex = _get_reader(worker.file)])
            ELSE IF worker.file.decoded.ex # NoException
            THEN Appends(<< >>, [worker EXCEPT !.pc = "raised", !.ex = worker.file.decoded.ex])
            ELSE Appends(<< "<li>" \o ToString(Len(external_ids)) \o " external IDs found</li>" >>,
                         [worker EXCEPT !.external_ids = external_ids,
                                        !.pc = IF Len(external_ids) = 0 THEN "early_done"
                                               ELSE "token"])
       ELSE IF worker.pc = "early_done"
       THEN Appends(<< "<li>Done</li>" >>, [worker EXCEPT !.pc = "early_set"])
       ELSE IF worker.pc = "early_set"
       THEN /\ jobs' = [jobs EXCEPT ![JobUuid].done = TRUE]
            /\ worker' = [worker EXCEPT !.pc = "finish"]
       ELSE IF worker.pc = "token"
       THEN IF ok THEN Appends(<< >>, [worker EXCEPT !.pc = "chunk"])
            ELSE Appends(<< >>, Raised("Exception", "Error getting access token"))
       ELSE IF worker.pc = "chunk"
       THEN IF worker.external_ids = << >>
            THEN /\ jobs' = [jobs EXCEPT ![JobUuid].result =
                               << [what |-> "sharing-state", content |-> worker.result] >>]
                 /\ worker' = [worker EXCEPT !.pc = "link"]
            ELSE IF ~ok
            THEN Appends(<< >>,
                   [Raised("HTTPError",
                           HTTPError("sharing-state?page=0&size=100&businessPartnerType=GENERIC").msg)
                      EXCEPT !.requests = Append(@, [sent |-> chunk, ok |-> FALSE])])
            ELSE Appends(<< "<li>Downloaded " \o ToString(worker.total + Len(content))
                              \o " records</li>" >>,
                         [worker EXCEPT !.external_ids = rest_of(worker.external_ids),
                                        !.total = @ + Len(content),
                                        !.result = @ \o content,
                                        !.requests = Append(@, [sent |-> chunk, ok |-> TRUE])])
       ELSE Appends(<< ResultLink >>, [worker EXCEPT !.pc = "finish"])
  /\ UNCHANGED << client, decode_vars, encode_vars >>

\* the numbers of records a page of the remote service may hold
PageSizes == {0, 1, CHUNK_SIZE, MAX_TOTAL}

\* the loop goes on whatever has been collected
something_is_wrong_never(total) == FALSE

\* lines 234-235: the break after more than MAX_TOTAL records
something_is_wrong(total) == total > MAX_TOTAL

\* processing.download_all, one step
download_all ==
  /\ worker.func = "download_all"
  /\ worker.pc \in {"start", "token", "page", "convert", "link"}
  /\ \E ok \in BOOLEAN, count \in PageSizes :
       IF worker.pc = "start"
       THEN Appends(<< "<li>Downloading all data from the " \o worker.file.what \o " stage...</li>" >>,
                    [worker EXCEPT !.pc = "token"])
       ELSE IF worker.pc = "token"
       THEN IF ok THEN Appends(<< >>, [worker EXCEPT !.pc = "page"])
            ELSE Appends(<< >>, Raised("Exception", "Error getting access token"))
       ELSE IF worker.pc = "page"
       THEN /\ (worker.page + 1 >= MaxPages) => count = 0
            /\ IF ~ok
               THEN Appends(<< >>,
                      [Raised("HTTPError", HTTPError(worker.file.what \o "/business-partners/search?page="
                                                       \o ToString(worker.page + 1) \o "&size=100").msg)
                         EXCEPT !.page = @ + 1,
                                !.requests = Append(@, [page |-> worker.page + 1, count |-> 0, ok |-> FALSE])])
               ELSE IF count = 0
               THEN Appends(<< >>,
                      [worker EXCEPT !.page = @ + 1, !.pc = "convert",
                                     !.requests = Append(@, [page |-> worker.page + 1, count |-> 0, ok |-> TRUE])])
               ELSE Appends(<< "<li>Downloaded " \o ToString(worker.total + count) \o " records</li>" >>,
                      [worker EXCEPT !.page = @ + 1,
                                     !.total = @ + count,
                                     !.result = Append(@, [page |-> worker.page + 1, count |-> count]),
                                     !.requests = Append(@, [page |-> worker.page + 1, count |-> count, ok |-> TRUE]),
                                     !.pc = IF something_is_wrong(worker.total + count)
                                            THEN "convert" ELSE "page"])
       ELSE IF worker.pc = "convert"
       THEN IF worker.result # << >> /\ worker.file.csv_error # NoException
            THEN Appends(<< >>, [worker EXCEPT !.pc = "raised", !.ex = worker.file.csv_error])
            ELSE /\ jobs' = [jobs EXCEPT ![JobUuid].result =
                               << [what |-> worker.file.what, content |-> worker.result] >>]
                 /\ worker' = [worker EXCEPT !.pc = "link"]
       ELSE Appends(<< ResultLink >>, [worker EXCEPT !.pc = "finish"])
  /\ UNCHANGED << client, decode_vars, encode_vars >>

\* lines 67-75: the entry of the except clause that catches the exception
error_entry(ex) ==
  "<li class=\"progress_error\">"
    \o (IF ex.type = "UnicodeDecodeError" THEN "Encoding Error: "
        ELSE IF ex.type = "CSVException" THEN "CSV Error: "
        ELSE "Error: ")
    \o escape(ex.msg) \o "</li>"

\* run_job without its except clauses: the exception leaves the thread
run_job_uncaught ==
  /\ worker.pc \in {"raised", "finish", "set_done"}
  /\ IF worker.pc = "raised"
     THEN /\ worker' = [worker EXCEPT !.pc = "exit"]
          /\ UNCHANGED jobs
     ELSE IF worker.pc = "finish"
     THEN Appends(<< "<li>Done</li>" >>, [worker EXCEPT !.pc = "set_done"])
     ELSE /\ jobs' = [jobs EXCEPT ![JobUuid].done = TRUE]
          /\ worker' = [worker EXCEPT !.pc = "exit"]
  /\ UNCHANGED << client, decode_vars, encode_vars >>

\* processing.run_job after func: the except clauses, the final entry and
\* the done flag
run_job ==
  /\ worker.pc \in {"raised", "finish", "set_done"}
  /\ IF worker.pc = "raised"
     THEN Appends(<< error_entry(worker.ex) >>, [worker EXCEPT !.pc = "finish"])
     ELSE IF worker.pc = "finish"
     THEN Appends(<< "<li>Done</li>" >>, [worker EXCEPT !.pc = "set_done"])
     ELSE /\ jobs' = [jobs EXCEPT ![JobUuid].done = TRUE]
          /\ worker' = [worker EXCEPT !.pc = "exit"]
  /\ UNCHANGED << client, decode_vars, encode_vars >>

\* "".join( status )
RECURSIVE joined_from(_, _)
joined_from(status, i) ==
  IF i > Len(status) THEN "" ELSE status[i] \o joined_from(status, i + 1)

joined(status) == joined_from(status, 1)

\* app.progress (lines 144-152), one step: the reads of the job's fields
\* are steps of their own, in the order of the dict display
progress ==
  /\ client.pc \in {"idle", "done", "result"}
  /\ client.pc = "idle" => client.polls < MaxPolls
  /\ client' =
       IF client.pc = "idle"
       THEN IF JobUuid \notin DOMAIN jobs
            THEN [client EXCEPT !.polls = @ + 1,
                                !.response = << [found |-> FALSE, progress |-> "<li>Job not found</li>",
                                                 done |-> TRUE, result |-> << >>] >>]
            ELSE [client EXCEPT !.pc = "done", !.progress = joined(jobs[JobUuid].status)]
       ELSE IF client.pc = "done"
       THEN [client EXCEPT !.pc = "result", !.done = jobs[JobUuid].done]
       ELSE [client EXCEPT !.pc = "idle", !.polls = @ + 1,
                           !.response =
                             << [found |-> TRUE, progress |-> client.progress, done |-> client.done,
                                 result |-> IF jobs[JobUuid].result = << >> \/ ~jobs[JobUuid].done
                                            THEN << >>
                                            ELSE << "/result/" \o jobs[JobUuid].name >>] >>]
  /\ UNCHANGED << jobs, worker, decode_vars, encode_vars >>

\* app.result (lines 155-167) for the URL that the last progress response
\* reported
result_ ==
  /\ client.pc = "idle"
  /\ client.response # << >>
  /\ client.response[1].result # << >>
  /\ client.download = << >>
  /\ LET url == client.response[1].result[1]
         job_uuid == SubSeq(url, Len("/result/") + 1, Len(url))
     IN  client' = [client EXCEPT !.download =
                      IF job_uuid \notin DOMAIN jobs THEN << [flash |-> "Job not found"] >>
                      ELSE IF jobs[job_uuid].result = << >>
                      THEN << [flash |-> "No result available"] >>
                      ELSE << [flash |-> "", body |-> jobs[job_uuid].result[1]] >>]
  /\ UNCHANGED << jobs, worker, decode_vars, encode_vars >>

ServiceInit ==
  /\ ServiceIdle
  /\ params = [caller                 |-> "",
               header                 |-> << >>,
               make_objects           |-> "False",
               space_handling         |-> SpaceHandling.Keep,
               ignore_unknown_columns |-> FALSE,
               related_columns        |-> << >>,
               identifier_column      |-> NoneStr,
               array_groups           |-> << >>]
  /\ pc = "idle"
  /\ headerline = << >>
  /\ rows = << >>
  /\ line = 1
  /\ result = << >>
  /\ previous_identifier = << >>
  /\ done_identifiers = {}
  /\ newdests = << >>
  /\ error = NoError
  /\ returned = << >>
  /\ data = << >>
  /\ encode_pc = "idle"
  /\ converted = 0
  /\ records = << >>
  /\ unknown_keys = {}
  /\ warnings = << >>
  /\ encode_error = NoError

ServiceNext ==
  \/ make_job \/ upload_file \/ get_sharing_state \/ download_all \/ run_job
  \/ progress \/ result_

ServiceSpec == ServiceInit /\ [][ServiceNext]_vars

\* the thread of a job is scheduled again and again until run_job returns
ServiceFair ==
  ServiceSpec /\ WF_vars(upload_file \/ get_sharing_state \/ download_all \/ run_job)

(***************************************************************************)
(* C24: a progress response for the job that reports done = true carries   *)
(* in its progress text every entry of the job's status, the error entry   *)
(* and the final "Done" entry included.                                    *)
(***************************************************************************)
C24_DoneResponseComplete ==
  \A i \in DOMAIN client.response :
    (client.response[i].found /\ client.response[i].done) =>
      client.response[i].progress = joined(jobs[JobUuid].status)

\* the "Done" entry is in the status once, as its last entry
DoneOnceLast(status) ==
  /\ status # << >>
  /\ status[Len(status)] = "<li>Done</li>"
  /\ Cardinality({i \in DOMAIN status : status[i] = "<li>Done</li>"}) = 1

(***************************************************************************)
(* C25: once the done flag of a job is true no step changes its status or  *)
(* its result, and the status of a job that is done holds the "Done" entry *)
(* exactly once, as its last entry.                                        *)
(***************************************************************************)
C25_FrozenOnceDone ==
  [][/\ (JobUuid \in DOMAIN jobs /\ jobs[JobUuid].done) =>
          /\ jobs'[JobUuid].status = jobs[JobUuid].status
          /\ jobs'[JobUuid].result = jobs[JobUuid].result
     /\ (JobUuid \in DOMAIN jobs' /\ jobs'[JobUuid].done) =>
          DoneOnceLast(jobs'[JobUuid].status)]_vars

\* the entries of a status that are error entries
ErrorEntries(status) ==
  {i \in DOMAIN status :
     Len(status[i]) >= Len("<li class=\"progress_error\">")
       /\ SubSeq(status[i], 1, Len("<li class=\"progress_error\">")) = "<li class=\"progress_error\">"}

\* the text that html.escape gives for the messages of the model, stated
\* one by one
EscapedMessages ==
  {"Field separator not found",
   "&#x27;utf-8&#x27; codec can&#x27;t decode byte 0xff in position 0: invalid start byte",
   "Unknown array column prefix &#x27;legalEntity.states.&#x27; in csv file",
   "Required column &#x27;externalId&#x27; is missing in csv file",
   "Line 2: Column &#x27;externalId&#x27; is empty",
   "Line 3: Column &#x27;externalId&#x27; is empty",
   "Line 3: Duplicate identifier &#x27;A1&#x27; (all lines regarding an identifier must be consecutive.)",
   "Line 3: Duplicate identifier &#x27;B1&#x27; (all lines regarding an identifier must be consecutive.)",
   "Line 3: One of the array columns  must be set",
   "Line 4: Duplicate identifier &#x27;A1&#x27; (all lines regarding an identifier must be consecutive.)",
   "Error getting access token",
   "500 Server Error: Internal Server Error for url: sharing-state?page=0&amp;size=100&amp;businessPartnerType=GENERIC",
   "dict contains fields not in fieldnames: &#x27;name10&#x27;"}
    \cup {"500 Server Error: Internal Server Error for url: " \o what
            \o "/business-partners/search?page=" \o ToString(page) \o "&amp;size=100" :
            what \in {"input", "output"}, page \in 0..MaxPages}

\* the worker has left run_job: the function returned or its exception was
\* caught, the done flag is true, and an exception left exactly one error
\* entry, with the escaped message, right before the final "Done" entry
RunJobEnded ==
  /\ worker.pc = "exit"
  /\ jobs[JobUuid].done
  /\ LET status == jobs[JobUuid].status IN
       /\ status[Len(status)] = "<li>Done</li>"
       /\ IF worker.ex = NoException THEN ErrorEntries(status) = {}
          ELSE /\ ErrorEntries(status) = {Len(status) - 1}
               /\ \E m \in EscapedMessages :
                    status[Len(status) - 1]
                      = "<li class=\"progress_error\">"
                          \o (IF worker.ex.type = "UnicodeDecodeError" THEN "Encoding Error: "
                              ELSE IF worker.ex.type = "CSVException" THEN "CSV Error: "
                              ELSE "Error: ")
                          \o m \o "</li>"

(***************************************************************************)
(* C26: whatever the processing function of a started job does, return or  *)
(* raise, run_job eventually sets the done flag; an exception is caught    *)
(* and leaves exactly one error entry with the escaped message right       *)
(* before the final "Done" entry.                                          *)
(***************************************************************************)
C26_RunJobAlwaysFinishes == (worker.pc = "start") ~> RunJobEnded

\* a job whose function raised has ended with its error entry
C26_Witness ==
  /\ RunJobEnded
  /\ worker.ex.type = "CSVException"
  /\ worker.func = "get_sharing_state"
  /\ worker.file.sep

(***************************************************************************)
(* C27: the result URL that a progress response reports designates the     *)
(* job it was asked about: it is reported only when the job is done, and   *)
(* the result endpoint answers it with the job's result, never with "Job   *)
(* not found".                                                             *)
(***************************************************************************)
C27_ResultUrlDesignatesJob ==
  /\ \A i \in DOMAIN client.response :
       client.response[i].result # << >>
         => /\ jobs[JobUuid].done
            /\ jobs[JobUuid].result # << >>
  /\ \A i \in DOMAIN client.download :
       /\ client.download[i].flash = ""
       /\ client.download[i].body = jobs[JobUuid].result[1]

\* the records of the requests from the i-th on, in the order sent
RECURSIVE sent_from(_, _)
sent_from(requests, i) ==
  IF i > Len(requests) THEN << >> ELSE requests[i].sent \o sent_from(requests, i + 1)

\* an upload job has ended for a file of the format (separator, UTF-8, the
\* header line of the format and data rows) and no request has failed
UploadEndedUnfailed ==
  /\ worker.func = "upload_file"
  /\ worker.pc = "exit"
  /\ worker.file.sep
  /\ worker.file.utf8
  /\ Len(worker.file.lines) > 1
  /\ \A i \in DOMAIN worker.requests : worker.requests[i].ok
  /\ worker.ex.msg # "Error getting access token"

RECURSIVE collected(_, _)
collected(requests, i) ==
  IF i = 0 THEN 0 ELSE collected(requests, i - 1) + requests[i].count

\* the non-empty pages among the requests from the i-th on, in page order
RECURSIVE pages_from(_, _)
pages_from(requests, i) ==
  IF i > Len(requests) THEN << >>
  ELSE (IF requests[i].ok /\ requests[i].count > 0
        THEN << [page |-> requests[i].page, count |-> requests[i].count] >>
        ELSE << >>) \o pages_from(requests, i + 1)

\* the paging loop as the claim describes it: page i - 1 is the i-th request,
\* a request is followed by another one only if it brought a non-empty page
\* and no more than MAX_TOTAL records were collected with it, the loop is
\* left only after an empty page or with more than MAX_TOTAL records, and
\* what is collected and stored is the pages in page order
PagingAsClaimed ==
  worker.func = "download_all" =>
    LET requests == worker.requests IN
    /\ \A i \in DOMAIN requests : requests[i].page = i - 1
    /\ \A i \in DOMAIN requests :
         i < Len(requests) => /\ requests[i].ok
                              /\ requests[i].count > 0
                              /\ collected(requests, i) <= MAX_TOTAL
    /\ worker.result = pages_from(requests, 1)
    /\ worker.total = collected(requests, Len(requests))
    /\ Len(requests) <= worker.total + 1
    /\ (worker.pc \in {"convert", "link"} \/ jobs[JobUuid].result # << >>)
         => /\ requests # << >>
            /\ requests[Len(requests)].ok
            /\ \/ requests[Len(requests)].count = 0
               \/ worker.total > MAX_TOTAL
    /\ jobs[JobUuid].result # << >>
         => jobs[JobUuid].result[1].content = pages_from(requests, 1)

(***************************************************************************)
(* C29: the paging loop of download_all ends whenever its requests return; *)
(* it asks for the pages 0, 1, 2, ... in order, stops at the first empty   *)
(* page or once more than MAX_TOTAL records are collected, and the result  *)
(* is the pages' contents in page order.                                   *)
(***************************************************************************)
C29_PagingTerminates ==
  /\ []PagingAsClaimed
  /\ (worker.func = "download_all" /\ worker.pc = "page") ~> (worker.pc # "page")

\* a download that took two pages and stopped with more than MAX_TOTAL
\* records has stored its result
C29_Witness ==
  /\ worker.func = "download_all"
  /\ worker.pc = "exit"
  /\ Len(worker.requests) = 2
  /\ worker.total > MAX_TOTAL
  /\ jobs[JobUuid].result # << >>
  /\ jobs[JobUuid].result[1].content = << [page |-> 0, count |-> 1], [page |-> 1, count |-> MAX_TOTAL] >>

\* the columns of a header line that carry the name of the identifier column
IdentifierColumns(hl) == {c \in DOMAIN hl : strip(hl[c]) = "externalId"}

\* get_external_ids has returned the external IDs of the job's file
ExternalIdsReturned ==
  /\ worker.func = "get_sharing_state"
  /\ worker.pc \notin {"none", "start", "ids"}
  /\ _get_reader(worker.file) = NoException
  /\ worker.file.decoded.ex = NoException

(***************************************************************************)
(* C30: when get_external_ids returns, the external IDs it returns are     *)
(* pairwise distinct, one per data row of the file and in file order: a    *)
(* file that repeats an identifier, on adjacent rows or not, fails.        *)
(***************************************************************************)
C30_ExternalIdsDistinct ==
  ExternalIdsReturned =>
    LET ids == worker.file.decoded.values
        lines == worker.file.lines
    IN  /\ Len(ids) = Len(lines) - 1
        /\ \A i \in DOMAIN ids :
             \E c \in IdentifierColumns(lines[1]) : ids[i] = collapse(lines[i + 1][c])
        /\ \A i \in DOMAIN ids : \A j \in DOMAIN ids : i # j => ids[i] # ids[j]

====
